---- MODULE Spec2Model ----
(***************************************************************************)
(* Model of the team-scoped posts API of mcp-socialmedia (server/src).     *)
(*                                                                         *)
(* State: the three tables (teams, api_keys, posts), the ids of the posts   *)
(* whose delete was answered 204 (acked), and the last operation with its  *)
(* request and response.  One action per route handler of                  *)
(* routers/posts.py, plus the out-of-band seeding of scripts/seed.py.      *)
(* A handler action covers the whole request: FastAPI's validation of the  *)
(* declared parameters, the handler body, the construction of the response *)
(* schema and the exception handler that turns a raised exception into the *)
(* response.                                                               *)
(*                                                                         *)
(* The requests of Spec are those the rate limiter admits; timestamps of   *)
(* successive rows are strictly increasing.  SpecRL puts the rate limiter  *)
(* of middleware/rate_limit.py in front of the handlers: storage holds the *)
(* counter of each bucket (bucket key and route) and hit the limiter's     *)
(* decision on the last request.  SpecObs puts the metrics middleware of  *)
(* middleware/metrics.py around the routes: registry holds the samples of  *)
(* the two Prometheus metrics.  Spec and SpecRL leave the registry out,    *)
(* which no response but the body of /metrics depends on.  SpecDb runs    *)
(* the requests of routers/posts.py as concurrent tasks, one await at a    *)
(* step: inflight holds the position of each task and sessions the         *)
(* database sessions that are open, each with the writes it has not        *)
(* committed.  In the other specifications a request is one step and no    *)
(* session outlives it.  SpecLog writes the log record of an             *)
(* authentication failure, with the key masked by mask_api_key of          *)
(* logging_config.py, for keys spelled out as sequences of characters; log *)
(* holds the last record.  The other specifications leave the log out.     *)
(* SpecClock runs the limiter of the delete route with the time of day:    *)
(* clock holds the time, the end of the window of each counter and, for    *)
(* each bucket, what its client was last told.  The other specifications   *)
(* leave the time out and let a window end at any moment.                  *)
(*                                                                         *)
(* Optional values (Python None) are sequences: <<>> is None, <<v>> is v.  *)
(* A str value is a record [txt, len]: its text and its length.            *)
(***************************************************************************)
EXTENDS Integers, Sequences, FiniteSets, TLC

VARIABLES teams, api_keys, posts, acked, last, storage, hit, registry,
          inflight, sessions, log, clock

vars == <<teams, api_keys, posts, acked, last, storage, hit, registry,
          inflight, sessions, log, clock>>

\* The state outside the tables: the counters of the rate limiter (storage)
\* and its decision on the last request (hit).
limiter_vars == <<storage, hit>>

\* The request tasks that run at the same time in SpecDb.
Slots == {1, 2}

\* A task that serves no request.
Idle == [pc |-> "idle"]

\* The clock at time 0, with no counter and no client that was answered.
NoClock == [now |-> 0, expirations |-> <<>>, answers |-> <<>>]

\* The tables, which no request outside routers/posts.py touches.
tables == <<teams, api_keys, posts, acked>>

-----------------------------------------------------------------------------
(* Bounds of the model                                                     *)

MaxPosts == 2

\* The requests a client sends on after the limiter has refused it.
MaxRefused == 1

\* The samples the metrics registry holds at most in SpecObs.
MaxSamples == 2

\* The longest API key in SpecLog.
MaxKeyLen == 9

\* The ticks of the clock of SpecClock.
MaxTicks == 4

-----------------------------------------------------------------------------
(* Values                                                                  *)

None == <<>>
Some(v) == <<v>>
Str(t, n) == [txt |-> t, len |-> n]

\* Bearer tokens a client may send; "kX" matches no stored key.
Tokens == {"k1", "k2", "kX"}
\* Authorization header values: absent, other scheme, empty token, a token.
Headers == {None, Some("Basic k1"), Some("Bearer ")}
             \cup {Some("Bearer " \o t) : t \in Tokens}
\* The header and the team name of the path a request carries; team "t3"
\* is in no table.
Creds == {[header |-> h, team |-> "t1"] : h \in Headers}
           \cup {[header |-> Some("Bearer " \o k), team |-> "t2"] : k \in {"k1", "k2"}}
           \cup {[header |-> h, team |-> "t3"] : h \in {None, Some("Bearer k1")}}

\* generate_id: uuid4, modelled as the least id above base that is not used.
generate_id(used, base) ==
  CHOOSE n \in (base + 1)..(base + Cardinality(used) + 1) :
     n \notin used /\ \A m \in (base + 1)..(n - 1) : m \in used

\* Post ids a request path can carry: 0 is an id no row ever has.
PathIds == 0..MaxPosts

-----------------------------------------------------------------------------
(* Error handling (middleware/error_handler.py)                            *)

_get_error_code_for_status(status_code) ==
  CASE status_code = 400 -> "BAD_REQUEST"
    [] status_code = 401 -> "UNAUTHORIZED"
    [] status_code = 403 -> "FORBIDDEN"
    [] status_code = 404 -> "NOT_FOUND"
    [] status_code = 405 -> "METHOD_NOT_ALLOWED"
    [] status_code = 409 -> "CONFLICT"
    [] status_code = 422 -> "VALIDATION_ERROR"
    [] status_code = 429 -> "RATE_LIMITED"
    [] status_code = 500 -> "INTERNAL_ERROR"
    [] status_code = 502 -> "BAD_GATEWAY"
    [] status_code = 503 -> "SERVICE_UNAVAILABLE"
    [] OTHER -> "UNKNOWN_ERROR"

\* A message text with the values interpolated into it.
Msg(text, post_id, team) == [text |-> text, post_id |-> post_id, team |-> team]

create_error_envelope(error, code, details, status_code) ==
  [error |-> error, code |-> code,
   details |-> [status_code |-> status_code, info |-> details]]

\* raise HTTPException(status_code, detail, headers)
HTTPException(status_code, detail, headers) ==
  [exc |-> "HTTPException", status_code |-> status_code,
   detail |-> detail, headers |-> headers]

\* An exception that is no HTTPException, RequestValidationError or
\* SQLAlchemyError.
PyException(type, message) ==
  [exc |-> type, message |-> message]

\* isinstance(exc.detail, dict) and "error" in exc.detail and "code" in exc.detail
IsEnvelope(detail) == {"error", "code"} \subseteq DOMAIN detail

\* Variant that returns the detail of the exception as it is, as the
\* handler FastAPI installs by default does.
http_exception_handler_Default(e) ==
  [status |-> e.status_code, json |-> Some([detail |-> e.detail]), headers |-> e.headers]

http_exception_handler(e) ==
  [status |-> e.status_code,
   json |-> Some([detail |-> IF IsEnvelope(e.detail) THEN e.detail
                             ELSE create_error_envelope(
                                    e.detail, _get_error_code_for_status(e.status_code),
                                    None, e.status_code)]),
   headers |-> e.headers]

generic_exception_handler(e) ==
  [status |-> 500,
   json |-> Some([detail |-> create_error_envelope(
                          Msg("An unexpected error occurred. Please try again later.", None, None),
                          "INTERNAL_ERROR",
                          Some([exception_type |-> e.exc, exception_message |-> e.message]),
                          500)]),
   headers |-> None]

\* An exception of the database driver: IntegrityError or another
\* SQLAlchemyError, with the text of str(exc).
SQLAlchemyError(type, message) == [exc |-> type, message |-> message]

sqlalchemy_exception_handler(e) ==
  IF e.exc = "IntegrityError"
  THEN [status |-> 409,
        json |-> Some([detail |-> create_error_envelope(
                   Msg("Database constraint violation. The requested operation conflicts with existing data.", None, None),
                   "INTEGRITY_ERROR",
                   Some([constraint_type |-> "integrity_constraint",
                         database_error |-> e.message]),
                   409)]),
        headers |-> None]
  ELSE [status |-> 500,
        json |-> Some([detail |-> create_error_envelope(
                   Msg("A database error occurred. Please try again later.", None, None),
                   "DATABASE_ERROR",
                   Some([database_error |-> e.message]),
                   500)]),
        headers |-> None]

\* The handler FastAPI installs for the HTTPException of Starlette, which
\* the router raises for a path no route matches (404) and for a method
\* the route of the path does not accept (405): the detail is the phrase
\* of the status.
starlette_http_exception_handler(status_code) ==
  [status |-> status_code,
   json |-> Some([detail |-> Msg(IF status_code = 404 THEN "Not Found"
                                 ELSE "Method Not Allowed", None, None)]),
   headers |-> None]

validation_exception_handler(field_errors) ==
  [status |-> 422,
   json |-> Some([detail |-> create_error_envelope(
                          Msg("Validation failed. Please check your input data.", None, None),
                          "VALIDATION_ERROR",
                          Some([field_errors |-> field_errors, error_count |-> Len(field_errors)]),
                          422)]),
   headers |-> None]

\* main.py: the handler registered for the class of the raised exception.
SQLAlchemyErrors == {"IntegrityError", "OperationalError"}

HandleException(e) ==
  IF e.exc = "HTTPException" THEN http_exception_handler(e)
  ELSE IF e.exc \in SQLAlchemyErrors THEN sqlalchemy_exception_handler(e)
  ELSE generic_exception_handler(e)

-----------------------------------------------------------------------------
(* Authentication (middleware/auth.py)                                     *)

\* authorization.startswith("Bearer ")
StartsWithBearer(authorization) ==
  \E t \in Tokens \cup {""} : authorization = "Bearer " \o t

\* authorization[7:]
StripBearer(authorization) ==
  CHOOSE t \in Tokens \cup {""} : authorization = "Bearer " \o t

get_current_team(header) ==
  IF header = None \/ header = Some("") THEN None
  ELSE IF ~StartsWithBearer(header[1]) THEN None
  ELSE LET api_key == StripBearer(header[1])
           rows == {r \in api_keys \X teams :
                      r[1].team_id = r[2].id /\ r[1].key = api_key}
       IN IF api_key = "" THEN None
          ELSE IF rows = {} THEN None
          ELSE LET r == CHOOSE r \in rows : TRUE
               IN Some([team_id |-> r[2].id, team_name |-> r[2].name,
                        api_key |-> r[1].key])

\* Result of a step that may raise: [ok |-> TRUE, val] or [ok |-> FALSE, exc].
Ok(v) == [ok |-> TRUE, val |-> v]
Raise(e) == [ok |-> FALSE, exc |-> e]

\* Variant that tells an unknown key from a missing one.
require_authentication_Leaky(header) ==
  LET auth_info == get_current_team(header)
  IN IF auth_info # None THEN Ok(auth_info[1])
     ELSE IF header # None /\ StartsWithBearer(header[1]) /\ StripBearer(header[1]) # ""
     THEN Raise(HTTPException(401, Msg("Unknown API key", None, None),
                              Some("WWW-Authenticate: Bearer")))
     ELSE Raise(HTTPException(401, Msg("Invalid or missing API key", None, None),
                              Some("WWW-Authenticate: Bearer")))

require_authentication(header) ==
  LET auth_info == get_current_team(header)
  IN IF auth_info = None
     THEN Raise(HTTPException(401, Msg("Invalid or missing API key", None, None),
                              Some("WWW-Authenticate: Bearer")))
     ELSE Ok(auth_info[1])

\* Variant that looks the team of the path up and answers 404 when no
\* such team is stored.
require_team_access_TeamLookup(header, team_name) ==
  LET a == require_authentication(header)
  IN IF ~a.ok THEN a
     ELSE IF a.val.team_name # team_name
     THEN IF \E t \in teams : t.name = team_name
          THEN Raise(HTTPException(403,
                       Msg("API key does not have access to team", None, Some(team_name)),
                       None))
          ELSE Raise(HTTPException(404, Msg("Team not found", None, Some(team_name)), None))
     ELSE a

require_team_access(header, team_name) ==
  LET a == require_authentication(header)
  IN IF ~a.ok THEN a
     ELSE IF a.val.team_name # team_name
     THEN Raise(HTTPException(403,
                  Msg("API key does not have access to team", None, Some(team_name)),
                  None))
     ELSE a

-----------------------------------------------------------------------------
(* Requests and responses                                                  *)

NoResponse == [status |-> 0, json |-> None, headers |-> None]

\* The two metrics of middleware/metrics.py without samples.
EmptyRegistry == [REQUEST_DURATION |-> <<>>, REQUEST_COUNT |-> <<>>]

Response(status, json) == [status |-> status, json |-> json, headers |-> None]

Request(cred, post_id, limit, offset, body) ==
  [header |-> cred.header, team |-> cred.team, post_id |-> post_id,
   limit |-> limit, offset |-> offset, body |-> body]

\* The outcome of a handler: its response and the posts table it leaves.
Outcome(resp, table) == [resp |-> resp, posts |-> table]

-----------------------------------------------------------------------------
(* Initial state: the tables after seeding the two teams and their keys    *)
(* (scripts/seed.py: demo and test-team), before any post exists.          *)

SeedTeamRows == {[id |-> 11, name |-> "t1"], [id |-> 12, name |-> "t2"]}
SeedKeyRows == {[id |-> 21, key |-> "k1", team_id |-> 11],
                [id |-> 22, key |-> "k2", team_id |-> 12]}

Init ==
  /\ teams = SeedTeamRows
  /\ api_keys = SeedKeyRows
  /\ posts = {}
  /\ acked = {}
  /\ last = [op |-> "init", req |-> None, resp |-> NoResponse]
  /\ storage = <<>>
  /\ hit = None
  /\ registry = EmptyRegistry
  /\ inflight = [r \in Slots |-> Idle]
  /\ sessions = <<>>
  /\ log = None
  /\ clock = NoClock

\* datetime.now() for the timestamp default of Post: the clock has advanced
\* since the latest stored post was stamped.
Now == IF posts = {} THEN 0
       ELSE 1 + (CHOOSE t \in {p.timestamp : p \in posts} :
                   \A p \in posts : p.timestamp <= t)

\* The Post row the ORM inserts: id and timestamp from the column defaults.
NewPost(team_id, author_name, content, tags, parent_post_id) ==
  [id |-> generate_id({p.id : p \in posts}, 0), team_id |-> team_id,
   author_name |-> author_name, content |-> content, tags |-> tags,
   timestamp |-> Now, parent_post_id |-> parent_post_id, deleted |-> FALSE]

\* scripts/seed.py: a post of the demo team, or a reply to one of its posts.
SeedPost(parent) ==
  /\ Cardinality(posts) < MaxPosts
  /\ LET demo_team == CHOOSE t \in teams : t.name = "t1"
     IN /\ IF parent = None THEN TRUE
           ELSE \E p \in posts : p.id = parent[1] /\ p.team_id = demo_team.id
        /\ posts' = posts \cup
             {NewPost(demo_team.id, Str("alice", 5), Str("Welcome", 7),
                      <<"welcome", "announcement">>, parent)}
  /\ last' = [op |-> "seed", req |-> None, resp |-> NoResponse]
  /\ UNCHANGED <<teams, api_keys, acked>>

-----------------------------------------------------------------------------
(* Response schemas (schemas.py)                                           *)

\* Constructing a pydantic model from keyword arguments: a declared field
\* without default that is not given raises ValidationError; a keyword
\* that is no declared field is ignored.
MissingFields(required, kwargs) == required \ DOMAIN kwargs

PostResponseRequired == {"postId", "author", "content", "createdAt"}
PostsResponseRequired == {"posts"}

\* schemas.Post(**post_dict): the router's PostSchema.
PostSchema(post, team_name) ==
  [cls |-> "Post", id |-> post.id, author_name |-> post.author_name,
   content |-> post.content, tags |-> post.tags, timestamp |-> post.timestamp,
   parent_post_id |-> post.parent_post_id, deleted |-> post.deleted,
   team_name |-> team_name]

\* PostResponse(post=...)
PostResponse(kwargs) ==
  IF MissingFields(PostResponseRequired, kwargs) # {}
  THEN Raise(PyException("ValidationError", "PostResponse: Field required"))
  ELSE Ok([postId |-> kwargs.postId, author |-> kwargs.author,
           content |-> kwargs.content,
           tags |-> IF "tags" \in DOMAIN kwargs THEN kwargs.tags ELSE <<>>,
           parentPostId |-> IF "parentPostId" \in DOMAIN kwargs
                            THEN kwargs.parentPostId ELSE None,
           createdAt |-> kwargs.createdAt])

\* PostsResponse(posts=..., total=..., has_more=...): posts is a list of
\* RemotePost, and an instance of another model is no valid item.
PostsResponse(kwargs) ==
  IF MissingFields(PostsResponseRequired, kwargs) # {}
  THEN Raise(PyException("ValidationError", "PostsResponse: Field required"))
  ELSE IF \E i \in 1..Len(kwargs.posts) : kwargs.posts[i].cls # "RemotePost"
  THEN Raise(PyException("ValidationError",
               "PostsResponse: Input should be a valid dictionary or instance of RemotePost"))
  ELSE Ok([posts |-> kwargs.posts,
           nextOffset |-> IF "nextOffset" \in DOMAIN kwargs
                          THEN kwargs.nextOffset ELSE None])

-----------------------------------------------------------------------------
(* GET /v1/teams/{team}/posts/{post_id}                                    *)

\* Variant without the team_id condition.
FindPost_AnyTeam(post_id, team_id) ==
  {p \in posts : p.id = post_id /\ p.deleted = FALSE}

\* Variant without the deleted condition.
FindPost_WithDeleted(post_id, team_id) ==
  {p \in posts : p.id = post_id /\ p.team_id = team_id}

\* select(Post).where(id == post_id, team_id == team_id, deleted == False)
FindPost(post_id, team_id) ==
  {p \in posts : p.id = post_id /\ p.team_id = team_id /\ p.deleted = FALSE}

PostNotFound(post_id, team) ==
  HTTPException(404, Msg("Post not found in team", Some(post_id), Some(team)), None)

get_post(cred, post_id) ==
  LET a == require_team_access(cred.header, cred.team)
  IN IF ~a.ok THEN Outcome(HandleException(a.exc), posts)
     ELSE LET found == FindPost(post_id, a.val.team_id)
          IN IF found = {}
             THEN Outcome(HandleException(PostNotFound(post_id, cred.team)), posts)
             ELSE LET post == CHOOSE p \in found : TRUE
                      r == PostResponse([post |-> PostSchema(post, a.val.team_name)])
                  IN IF r.ok THEN Outcome(Response(200, Some(r.val)), posts)
                     ELSE Outcome(HandleException(r.exc), posts)

GetPost(cred, post_id) ==
  LET r == get_post(cred, post_id)
  IN /\ posts' = r.posts
     /\ last' = [op |-> "get", req |-> Some(Request(cred, post_id, 0, 0, None)),
                 resp |-> r.resp]
     /\ UNCHANGED <<teams, api_keys, acked>>

-----------------------------------------------------------------------------
(* DELETE /v1/teams/{team}/posts/{post_id}                                 *)

\* Variant that removes the row.
SoftDelete_RemoveRow(post) == posts \ {post}

\* post.deleted = True; commit
SoftDelete(post) == (posts \ {post}) \cup {[post EXCEPT !.deleted = TRUE]}

\* Variant that answers 204 again for a post that is already deleted.
delete_post_Idempotent(cred, post_id) ==
  LET a == require_team_access(cred.header, cred.team)
  IN IF ~a.ok THEN Outcome(HandleException(a.exc), posts)
     ELSE LET found == {p \in posts : p.id = post_id /\ p.team_id = a.val.team_id}
          IN IF found = {}
             THEN Outcome(HandleException(PostNotFound(post_id, cred.team)), posts)
             ELSE LET post == CHOOSE p \in found : TRUE
                  IN Outcome(Response(204, None), SoftDelete(post))

delete_post(cred, post_id) ==
  LET a == require_team_access(cred.header, cred.team)
  IN IF ~a.ok THEN Outcome(HandleException(a.exc), posts)
     ELSE LET found == FindPost(post_id, a.val.team_id)
          IN IF found = {}
             THEN Outcome(HandleException(PostNotFound(post_id, cred.team)), posts)
             ELSE LET post == CHOOSE p \in found : TRUE
                  IN Outcome(Response(204, None), SoftDelete(post))

DeletePost(cred, post_id) ==
  LET r == delete_post(cred, post_id)
  IN /\ posts' = r.posts
     /\ acked' = IF r.resp.status = 204 THEN acked \cup {post_id} ELSE acked
     /\ last' = [op |-> "delete", req |-> Some(Request(cred, post_id, 0, 0, None)),
                 resp |-> r.resp]
     /\ UNCHANGED <<teams, api_keys>>

-----------------------------------------------------------------------------
(* GET /v1/teams/{team}/posts                                              *)

LimitMin == 1
LimitMax == 100
OffsetMin == 0

\* Query(ge=1, le=100) on limit and Query(ge=0) on offset, in the order of
\* the handler's signature.
ValidateListQuery(limit, offset) ==
  (IF limit < LimitMin THEN <<[field |-> "query -> limit", type |-> "greater_than_equal"]>>
   ELSE IF limit > LimitMax THEN <<[field |-> "query -> limit", type |-> "less_than_equal"]>>
   ELSE <<>>)
  \o (IF offset < OffsetMin THEN <<[field |-> "query -> offset", type |-> "greater_than_equal"]>>
      ELSE <<>>)

\* The orders in which the database may return rows for
\* order_by(timestamp.desc()): rows of equal timestamp come in any order.
SortedDesc(S) ==
  {s \in [1..Cardinality(S) -> S] :
     /\ \A i, j \in 1..Cardinality(S) : i # j => s[i] # s[j]
     /\ \A i, j \in 1..Cardinality(S) : i < j => s[i].timestamp >= s[j].timestamp}

\* .where(team_id == team_id, deleted == False)
TeamPosts(team_id) == {p \in posts : p.team_id = team_id /\ p.deleted = FALSE}

Min(a, b) == IF a < b THEN a ELSE b

\* .offset(offset).limit(limit) of an ordered result
Page(rows, offset, limit) == SubSeq(rows, offset + 1, Min(offset + limit, Len(rows)))

\* The count query of list_posts on the rows that are committed now.
list_posts_count(auth_info) == Cardinality(TeamPosts(auth_info.team_id))

\* The page query of list_posts on the rows that are committed now, and the
\* response made of its rows and of the total the count query returned.
list_posts_page(auth_info, total, limit, offset, rows) ==
  LET IsTeamPost(p) == p \in TeamPosts(auth_info.team_id)
      posts_data == Page(SelectSeq(rows, IsTeamPost), offset, limit)
      page == [i \in 1..Len(posts_data) |->
                 PostSchema(posts_data[i], auth_info.team_name)]
      has_more == (offset + limit) < total
      r == PostsResponse([posts |-> page, total |-> total, has_more |-> has_more])
  IN IF r.ok THEN Outcome(Response(200, Some(r.val)), posts)
     ELSE Outcome(HandleException(r.exc), posts)

\* Variant that authenticates before it validates the query.
list_posts_AuthFirst(cred, limit, offset, rows) ==
  LET errs == ValidateListQuery(limit, offset)
      a == require_team_access(cred.header, cred.team)
  IN IF ~a.ok THEN Outcome(HandleException(a.exc), posts)
     ELSE IF errs # <<>> THEN Outcome(validation_exception_handler(errs), posts)
     ELSE list_posts_page(a.val, list_posts_count(a.val), limit, offset, rows)

list_posts(cred, limit, offset, rows) ==
  LET errs == ValidateListQuery(limit, offset)
      a == require_team_access(cred.header, cred.team)
  IN IF errs # <<>> THEN Outcome(validation_exception_handler(errs), posts)
     ELSE IF ~a.ok THEN Outcome(HandleException(a.exc), posts)
     ELSE list_posts_page(a.val, list_posts_count(a.val), limit, offset, rows)

ListPosts(cred, limit, offset, rows) ==
  LET r == list_posts(cred, limit, offset, rows)
  IN /\ posts' = r.posts
     /\ last' = [op |-> "list", req |-> Some(Request(cred, 0, limit, offset, None)),
                 resp |-> r.resp]
     /\ UNCHANGED <<teams, api_keys, acked>>

-----------------------------------------------------------------------------
(* POST /v1/teams/{team}/posts                                             *)

AuthorMaxLen == 128
ContentMaxLen == 10000
TagsMaxLen == 20

\* The fields schemas.PostCreate declares.
PostCreateFields == {"author", "content", "tags", "parentPostId"}

\* Validation of a str field with min_length=1 and max_length=n.
ValidateStr(body, name, n) ==
  IF name \notin DOMAIN body
  THEN <<[field |-> "body -> " \o name, type |-> "missing"]>>
  ELSE IF body[name].len < 1
  THEN <<[field |-> "body -> " \o name, type |-> "string_too_short"]>>
  ELSE IF body[name].len > n
  THEN <<[field |-> "body -> " \o name, type |-> "string_too_long"]>>
  ELSE <<>>

\* Validation of the request body against PostCreate.
ValidatePostCreate(body) ==
  ValidateStr(body, "author", AuthorMaxLen)
  \o ValidateStr(body, "content", ContentMaxLen)
  \o (IF "tags" \in DOMAIN body /\ Len(body.tags) > TagsMaxLen
      THEN <<[field |-> "body -> tags", type |-> "too_long"]>>
      ELSE <<>>)

\* The PostCreate instance of a valid body: keys that are no declared field
\* are dropped, and tags and parentPostId default to None.
PostCreate(body) ==
  [author |-> body.author, content |-> body.content,
   tags |-> IF "tags" \in DOMAIN body THEN Some(body.tags) ELSE None,
   parentPostId |-> IF "parentPostId" \in DOMAIN body THEN Some(body.parentPostId) ELSE None]

\* post_data.<name>: AttributeError for a name PostCreate does not declare.
HasAttr(name) == name \in PostCreateFields

ParentNotFound(parent_post_id, team) ==
  HTTPException(404, Msg("Parent post not found in team", Some(parent_post_id), Some(team)), None)

\* tags or []
OrEmpty(tags) == IF tags = None THEN <<>> ELSE tags[1]

\* Variant that asks for a stored key and not for the key of the team of
\* the path.
create_post_AnyTeam(cred, body) ==
  LET errs == ValidatePostCreate(body)
      a == require_authentication(cred.header)
  IN IF errs # <<>> THEN Outcome(validation_exception_handler(errs), posts)
     ELSE IF ~a.ok THEN Outcome(HandleException(a.exc), posts)
     ELSE IF ~HasAttr("parent_post_id")
     THEN Outcome(HandleException(PyException("AttributeError",
                    "'PostCreate' object has no attribute 'parent_post_id'")), posts)
     ELSE LET post_data == PostCreate(body)
              parent == post_data.parent_post_id
          IN IF parent # None /\ FindPost(parent[1], a.val.team_id) = {}
             THEN Outcome(HandleException(ParentNotFound(parent[1], cred.team)), posts)
             ELSE IF ~HasAttr("author_name")
             THEN Outcome(HandleException(PyException("AttributeError",
                            "'PostCreate' object has no attribute 'author_name'")), posts)
             ELSE LET new_post == NewPost(a.val.team_id, post_data.author_name,
                                          post_data.content, OrEmpty(post_data.tags),
                                          parent)
                      r == PostResponse([post |-> PostSchema(new_post, a.val.team_name)])
                  IN IF r.ok THEN Outcome(Response(201, Some(r.val)), posts \cup {new_post})
                     ELSE Outcome(HandleException(r.exc), posts \cup {new_post})

create_post(cred, body) ==
  LET errs == ValidatePostCreate(body)
      a == require_team_access(cred.header, cred.team)
  IN IF errs # <<>> THEN Outcome(validation_exception_handler(errs), posts)
     ELSE IF ~a.ok THEN Outcome(HandleException(a.exc), posts)
     ELSE IF ~HasAttr("parent_post_id")
     THEN Outcome(HandleException(PyException("AttributeError",
                    "'PostCreate' object has no attribute 'parent_post_id'")), posts)
     ELSE LET post_data == PostCreate(body)
              parent == post_data.parent_post_id
          IN IF parent # None /\ FindPost(parent[1], a.val.team_id) = {}
             THEN Outcome(HandleException(ParentNotFound(parent[1], cred.team)), posts)
             ELSE IF ~HasAttr("author_name")
             THEN Outcome(HandleException(PyException("AttributeError",
                            "'PostCreate' object has no attribute 'author_name'")), posts)
             ELSE LET new_post == NewPost(a.val.team_id, post_data.author_name,
                                          post_data.content, OrEmpty(post_data.tags),
                                          parent)
                      r == PostResponse([post |-> PostSchema(new_post, a.val.team_name)])
                  IN IF r.ok THEN Outcome(Response(201, Some(r.val)), posts \cup {new_post})
                     ELSE Outcome(HandleException(r.exc), posts \cup {new_post})

CreatePost(cred, body) ==
  LET r == create_post(cred, body)
  IN /\ posts' = r.posts
     /\ last' = [op |-> "create", req |-> Some(Request(cred, 0, 0, 0, Some(body))),
                 resp |-> r.resp]
     /\ UNCHANGED <<teams, api_keys, acked>>

-----------------------------------------------------------------------------
(* Rate limiting (middleware/rate_limit.py, the limiter.limit decorators   *)
(* of main.py and routers/posts.py)                                        *)

HealthLimit == 30
ListLimit == 100
CreateLimit == 30
GetLimit == 100
DeleteLimit == 20
MetricsLimit == 60
RetryAfter == 60

\* default_limits of the limiter, which SlowAPIMiddleware would apply to
\* the routes without a limiter.limit decorator; main.py adds no such
\* middleware.
DefaultLimit == 60

\* The decorated endpoint functions.
Routes == {"health_check", "list_posts", "create_post", "get_post", "delete_post",
           "metrics_endpoint"}

\* The amount of the limit of limiter.limit("<amount>/minute") on a route.
RouteLimit(route) ==
  CASE route = "health_check" -> HealthLimit
    [] route = "list_posts" -> ListLimit
    [] route = "create_post" -> CreateLimit
    [] route = "get_post" -> GetLimit
    [] route = "delete_post" -> DeleteLimit
    [] route = "metrics_endpoint" -> MetricsLimit

\* str(exc.detail): the text of the limit that was exceeded.
LimitText(route) ==
  CASE route = "health_check" -> "30 per 1 minute"
    [] route = "list_posts" -> "100 per 1 minute"
    [] route = "create_post" -> "30 per 1 minute"
    [] route = "get_post" -> "100 per 1 minute"
    [] route = "delete_post" -> "20 per 1 minute"
    [] route = "metrics_endpoint" -> "60 per 1 minute"

\* Variant that keys every request by the client address.
get_rate_limit_key_ByIp(header, ip) == "ip:" \o ip

\* Variant that puts every request in one bucket.
get_rate_limit_key_Shared(header, ip) == "ip:"

get_rate_limit_key(header, ip) ==
  IF header # None /\ StartsWithBearer(header[1]) /\ StripBearer(header[1]) # ""
  THEN "api_key:" \o StripBearer(header[1])
  ELSE "ip:" \o ip

\* The bucket of a request: the key of key_func and, as scope, the endpoint
\* function the decorator wraps.
\* Variant that takes the token for the key only when it is a stored key.
Bucket_StoredKeysOnly(client, route) ==
  <<IF get_current_team(client.header) # None
    THEN get_rate_limit_key(client.header, client.ip)
    ELSE "ip:" \o client.ip, route>>

Bucket(client, route) == <<get_rate_limit_key(client.header, client.ip), route>>

\* The counter the storage holds for a bucket in its current window.
Count(bucket) == IF bucket \in DOMAIN storage THEN storage[bucket] ELSE 0

\* storage.incr of the fixed-window strategy: every request counts, the
\* refused ones too.
Incr(bucket) ==
  [b \in DOMAIN storage \cup {bucket} |-> IF b = bucket THEN Count(b) + 1 ELSE storage[b]]

\* Variant that admits one request more than the amount.
Admits_OffByOne(bucket, route) == Count(bucket) + 1 <= RouteLimit(route) + 1

\* limiter.hit: the request is admitted when the incremented counter does
\* not exceed the amount of the limit.
Admits(bucket, route) == Count(bucket) + 1 <= RouteLimit(route)

RateLimitExceeded(route) == [exc |-> "RateLimitExceeded", detail |-> LimitText(route)]

\* Variant that tells the client to wait for half a minute.
custom_rate_limit_handler_ShortWait(exc) ==
  Raise(HTTPException(429,
          [error |-> Msg("Rate limit exceeded. Please try again later.", None, None),
           code |-> "RATE_LIMITED",
           details |-> [retry_after |-> 30, limit |-> exc.detail]],
          Some("Retry-After: 30")))

\* The handler raises the HTTPException of the 429 response.
custom_rate_limit_handler(exc) ==
  Raise(HTTPException(429,
          [error |-> Msg("Rate limit exceeded. Please try again later.", None, None),
           code |-> "RATE_LIMITED",
           details |-> [retry_after |-> RetryAfter, limit |-> exc.detail]],
          Some("Retry-After: 60")))

\* The response to a request the limiter refuses: the exception handler of
\* RateLimitExceeded raises, and the raised HTTPException is handled in turn.
RateLimitedResponse(route) ==
  HandleException(custom_rate_limit_handler(RateLimitExceeded(route)).exc)

\* Variant that runs the handler of the route before the limit is checked.
Limited_HandlerFirst(route, client, op, req, Handler) ==
  LET bucket == Bucket(client, route)
  IN /\ storage' = Incr(bucket)
     /\ hit' = Some([bucket |-> bucket, ip |-> client.ip, admitted |-> Admits(bucket, route)])
     /\ IF Admits(bucket, route) THEN Handler
        ELSE /\ posts' = IF op = "delete"
                         THEN delete_post([header |-> req[1].header, team |-> req[1].team],
                                          req[1].post_id).posts
                         ELSE posts
             /\ last' = [op |-> op, req |-> req, resp |-> RateLimitedResponse(route)]
             /\ UNCHANGED <<teams, api_keys, acked>>

\* The wrapper of limiter.limit around an endpoint function: it counts the
\* request and either raises RateLimitExceeded or calls the function.
Limited(route, client, op, req, Handler) ==
  LET bucket == Bucket(client, route)
  IN /\ storage' = Incr(bucket)
     /\ hit' = Some([bucket |-> bucket, ip |-> client.ip, admitted |-> Admits(bucket, route)])
     /\ IF Admits(bucket, route) THEN Handler
        ELSE /\ last' = [op |-> op, req |-> req, resp |-> RateLimitedResponse(route)]
             /\ UNCHANGED <<teams, api_keys, posts, acked>>

\* A request whose parameters fail validation is answered by FastAPI
\* before the wrapper of the endpoint function is called.
Unlimited(Handler) ==
  /\ Handler
  /\ hit' = None
  /\ UNCHANGED storage

\* The window of a bucket ends: the storage drops its counter.
WindowExpires(bucket) ==
  /\ bucket \in DOMAIN storage
  /\ storage' = [b \in DOMAIN storage \ {bucket} |-> storage[b]]
  /\ hit' = None
  /\ last' = [op |-> "expire", req |-> None, resp |-> NoResponse]
  /\ UNCHANGED <<teams, api_keys, posts, acked>>

-----------------------------------------------------------------------------
(* GET /v1/healthz and GET /metrics (main.py)                              *)

\* The request of a route without team or parameters.
PlainRequest(header) == Request([header |-> header, team |-> ""], 0, 0, 0, None)

health_check == Response(200, Some([status |-> "ok", buildSha |-> "dev"]))

HealthCheck(header) ==
  /\ last' = [op |-> "health", req |-> Some(PlainRequest(header)), resp |-> health_check]
  /\ UNCHANGED <<teams, api_keys, posts, acked>>

metrics_endpoint == Response(200, None)

MetricsEndpoint(header) ==
  /\ last' = [op |-> "metrics", req |-> Some(PlainRequest(header)), resp |-> metrics_endpoint]
  /\ UNCHANGED <<teams, api_keys, posts, acked>>

-----------------------------------------------------------------------------
(* Requests no route handler answers                                       *)

\* GET /v1/nonexistent: no route matches the path.
UnknownRoute(header) ==
  /\ last' = [op |-> "unknown_route", req |-> Some(PlainRequest(header)),
              resp |-> starlette_http_exception_handler(404)]
  /\ UNCHANGED tables

\* GET /v1/docs: the documentation page FastAPI serves at docs_url, a route
\* without a limiter.limit decorator.
Docs(header) ==
  /\ last' = [op |-> "docs", req |-> Some(PlainRequest(header)),
              resp |-> Response(200, None)]
  /\ UNCHANGED tables

\* GET /v1/teams/t1/posts/: the router redirects a path that matches a
\* route once its trailing slash is taken off (redirect_slashes), with a
\* response that has no JSON body.
RedirectSlashes(header) ==
  /\ last' = [op |-> "redirect_slashes", req |-> Some(PlainRequest(header)),
              resp |-> [status |-> 307, json |-> None,
                        headers |-> Some("location: /v1/teams/t1/posts")]]
  /\ UNCHANGED tables

\* PATCH /v1/healthz: the route of the path accepts GET only.
MethodNotAllowed(header) ==
  /\ last' = [op |-> "method_not_allowed", req |-> Some(PlainRequest(header)),
              resp |-> starlette_http_exception_handler(405)]
  /\ UNCHANGED tables

\* The error the database raises when it is out of order.
DbErrors == {SQLAlchemyError("OperationalError", "database is locked")}

\* A get of a request with a token whose first query, the lookup of the
\* key in get_current_team, raises e.
GetPostDbFails(cred, post_id, e) ==
  /\ last' = [op |-> "get", req |-> Some(Request(cred, post_id, 0, 0, None)),
              resp |-> HandleException(e)]
  /\ UNCHANGED tables

-----------------------------------------------------------------------------
(* The metrics middleware                                                  *)

\* request.url.path of the routes of a team and of one of its posts.
TeamPath(team_name) == "/v1/teams/" \o team_name \o "/posts"

PostPath(team_name, post_id) == TeamPath(team_name) \o "/" \o ToString(post_id)

\* The sum of f over S.
RECURSIVE SumOver(_, _)
SumOver(f, S) ==
  IF S = {} THEN 0
  ELSE LET x == CHOOSE x \in S : TRUE IN f[x] + SumOver(f, S \ {x})

\* The samples of a label in a metric.
Samples(metric, label) == IF label \in DOMAIN metric THEN metric[label] ELSE 0

\* .labels(method, endpoint, status_code).observe(duration) and .inc(): one
\* more sample of the label.
inc(metric, label) ==
  [l \in DOMAIN metric \cup {label} |->
     IF l = label THEN Samples(metric, l) + 1 ELSE metric[l]]

\* The response generic_exception_handler makes.  The handler registered
\* for Exception runs in the server error middleware, the outermost layer:
\* the exception passes through call_next of every middleware inside it.
RaisedThroughCallNext(resp) ==
  /\ resp.status = 500
  /\ resp.json[1].detail.code = "INTERNAL_ERROR"
  /\ resp.json[1].detail.details.info # None
  /\ "exception_type" \in DOMAIN resp.json[1].detail.details.info[1]

\* call_next is the rest of the pipeline, which leaves its response in
\* last'.
metrics_middleware(method, path, call_next) ==
  /\ call_next
  /\ registry' =
       IF path = "/metrics" THEN registry
       ELSE IF RaisedThroughCallNext(last'.resp) THEN registry
       ELSE LET label == <<method, path, ToString(last'.resp.status)>>
            IN [REQUEST_DURATION |-> inc(registry.REQUEST_DURATION, label),
                REQUEST_COUNT |-> inc(registry.REQUEST_COUNT, label)]

-----------------------------------------------------------------------------
(* The requests clients send                                               *)

\* limit and offset of a list request: in range, and one out of range each.
ListArgs ==
  {[limit |-> 1, offset |-> 0], [limit |-> 1, offset |-> 1], [limit |-> 2, offset |-> 0],
   [limit |-> 2, offset |-> 1], [limit |-> 100, offset |-> 0],
   [limit |-> 1, offset |-> MaxPosts + 1],
   [limit |-> 0, offset |-> 0], [limit |-> 101, offset |-> 0], [limit |-> 1, offset |-> -1]}

Tags(n) == [i \in 1..n |-> "tag"]

\* Bodies of a create request: valid ones (minimal, at the length limits,
\* a reply to each id), and one for each way of being invalid.
ValidBodies ==
  {[author |-> Str("alice", 5), content |-> Str("hello", 5)],
   [author |-> Str("a128", 128), content |-> Str("c10000", 10000), tags |-> Tags(20)],
   [author |-> Str("bob", 3), content |-> Str("hi", 2), tags |-> <<"b", "a">>]}
  \cup {[author |-> Str("carol", 5), content |-> Str("re", 2), parentPostId |-> i] : i \in PathIds}

InvalidBodies ==
  {[author |-> Str("", 0), content |-> Str("hello", 5)],
   [author |-> Str("a129", 129), content |-> Str("c10001", 10001)],
   [author |-> Str("alice", 5), content |-> Str("hello", 5), tags |-> Tags(21)],
   [author_name |-> Str("alice", 5), content |-> Str("hello", 5)]}

Bodies == ValidBodies \cup InvalidBodies

-----------------------------------------------------------------------------
(* Vocabulary of the properties                                            *)

ApiOps == {"list", "create", "get", "delete"}

LastReq == last.req[1]

CredOf(req) == [header |-> req.header, team |-> req.team]

\* The request authenticates and its key belongs to the team of the path.
Authorized(req) == require_team_access(req.header, req.team).ok

\* The team id of the key a request carries.
KeyTeamId(req) == require_team_access(req.header, req.team).val.team_id

\* The id of a post carried in a response body.
PostIdOf(item) == IF "postId" \in DOMAIN item THEN item.postId ELSE item.id

\* The ids of the posts a response returns to the client.
ReturnedIds(resp) ==
  IF resp.status \notin 200..299 \/ resp.json = None THEN {}
  ELSE LET j == resp.json[1]
       IN IF "posts" \in DOMAIN j
          THEN {PostIdOf(j.posts[i]) : i \in 1..Len(j.posts)}
          ELSE IF "postId" \in DOMAIN j THEN {j.postId} ELSE {}

\* The request passes FastAPI's validation of the handler's parameters.
PassesValidation(op, req) ==
  CASE op = "list" -> ValidateListQuery(req.limit, req.offset) = <<>>
    [] op = "create" -> ValidatePostCreate(req.body[1]) = <<>>
    [] OTHER -> TRUE

\* The response the handler of op gives to req in the current state.
HandlerResponse(op, req) ==
  CASE op = "list" -> list_posts(CredOf(req), req.limit, req.offset,
                                 CHOOSE rows \in SortedDesc(posts) : TRUE).resp
    [] op = "create" -> create_post(CredOf(req), req.body[1]).resp
    [] op = "get" -> get_post(CredOf(req), req.post_id).resp
    [] op = "delete" -> delete_post(CredOf(req), req.post_id).resp

\* The error envelope of an error response.
Envelope(resp) == resp.json[1].detail

-----------------------------------------------------------------------------
(* C1  Cross-team isolation.  In every step that serves a request, a post  *)
(* of a team other than the team of the request's key (or any post, when   *)
(* the key is no stored key) keeps its row unchanged, so its deleted flag  *)
(* is not set, and is not among the posts the response returns; a get or a *)
(* delete that names the exact id of such a post under the key's own team  *)
(* path is answered 404.                                                   *)

C1_Step ==
  last'.op \in ApiOps =>
    LET req == last'.req[1]
        who == get_current_team(req.header)
    IN \A p \in posts :
         (IF who = None THEN TRUE ELSE who[1].team_id # p.team_id) =>
            /\ p \in posts'
            /\ p.id \notin ReturnedIds(last'.resp)
            /\ (/\ Authorized(req)
                /\ last'.op \in {"get", "delete"}
                /\ req.post_id = p.id) => last'.resp.status = 404

C1_CrossTeamIsolation == [][C1_Step]_vars

\* Team t2's key names the exact id of a live post of team t1 in a delete.
C1_Witness ==
  /\ last.op = "delete"
  /\ LastReq.header = Some("Bearer k2") /\ LastReq.team = "t2"
  /\ \E p \in posts : p.id = LastReq.post_id /\ p.team_id = 11 /\ ~p.deleted
  /\ last.resp.status = 404

-----------------------------------------------------------------------------
(* C2  Once a delete of post P was answered 204, no later response returns *)
(* P: a get of P is never answered with success, a get of P by a key of    *)
(* the path's team is answered 404, and no list contains P.                *)

C2_DeletedStaysHidden ==
  /\ (last.op = "get" /\ LastReq.post_id \in acked) =>
        /\ last.resp.status \notin 200..299
        /\ Authorized(LastReq) => last.resp.status = 404
  /\ last.op \in ApiOps => ReturnedIds(last.resp) \cap acked = {}

\* The owning team gets a post whose delete was answered 204.
C2_Witness ==
  /\ last.op = "get"
  /\ LastReq.post_id \in acked
  /\ LastReq.header = Some("Bearer k1") /\ LastReq.team = "t1"
  /\ last.resp.status = 404

-----------------------------------------------------------------------------
(* C3  Delete is not idempotent.  A delete by the owning team of a post    *)
(* that is already soft-deleted is answered 404 with a message naming the  *)
(* post id and leaves the posts table unchanged; a delete answered 204     *)
(* marks the post deleted, and the same request repeated right after a 204 *)
(* is answered 404.                                                        *)

C3_Step ==
  last'.op = "delete" =>
    LET req == last'.req[1]
    IN /\ (Authorized(req) /\ \E p \in posts : p.id = req.post_id /\ p.deleted) =>
             /\ last'.resp.status = 404
             /\ Envelope(last'.resp).code = "NOT_FOUND"
             /\ Envelope(last'.resp).error.post_id = Some(req.post_id)
             /\ posts' = posts
       /\ last'.resp.status = 204 =>
             \E p \in posts' : p.id = req.post_id /\ p.deleted
       /\ (last.op = "delete" /\ last.resp.status = 204 /\ last'.req = last.req) =>
             last'.resp.status = 404

C3_DeleteNotIdempotent == [][C3_Step]_vars

\* The second delete of a post by its team.
C3_Witness ==
  /\ last.op = "delete"
  /\ LastReq.post_id \in acked
  /\ Authorized(LastReq)
  /\ \E p \in posts : p.id = LastReq.post_id /\ p.team_id = KeyTeamId(LastReq)
  /\ last.resp.status = 404

-----------------------------------------------------------------------------
(* C4  The store is monotone: no step removes a post row or resets a       *)
(* deleted flag from true to false, and no step removes a Team or ApiKey   *)
(* row.                                                                    *)

C4_Step ==
  /\ \A p \in posts : \E q \in posts' : q.id = p.id /\ (p.deleted => q.deleted)
  /\ {p.id : p \in posts} \subseteq {p.id : p \in posts'}
  /\ teams \subseteq teams'
  /\ api_keys \subseteq api_keys'

C4_StoreMonotone == [][C4_Step]_vars

\* A request served after a delete was answered 204: the row is still
\* stored and still deleted.
C4_Witness ==
  /\ acked # {}
  /\ last.op = "create"
  /\ \A i \in acked : \E p \in posts : p.id = i /\ p.deleted

-----------------------------------------------------------------------------
(* C5  Create-then-get round trip.  A create with a valid body (author     *)
(* 1-128 chars, content 1-10000 chars, at most 20 tags, no parent or a     *)
(* live parent of the team) by a key of the path's team is answered 201    *)
(* with the id of a stored post that has the request's author, content,    *)
(* tags (the empty list when omitted) and parent and deleted = false, and  *)
(* a get of that id with the same key returns the same fields.             *)

BodyTags(body) == IF "tags" \in DOMAIN body THEN body.tags ELSE <<>>

BodyParent(body) == IF "parentPostId" \in DOMAIN body THEN Some(body.parentPostId) ELSE None

C5_CreateThenGet ==
  (/\ last.op = "create"
   /\ LastReq.body[1] \in ValidBodies
   /\ Authorized(LastReq)
   /\ BodyParent(LastReq.body[1]) # None =>
        FindPost(LastReq.body[1].parentPostId, KeyTeamId(LastReq)) # {})
  => /\ last.resp.status = 201
     /\ LET body == LastReq.body[1]
            created == last.resp.json[1]
            got == get_post(CredOf(LastReq), created.postId).resp
        IN /\ \E p \in posts :
                /\ p.id = created.postId /\ p.deleted = FALSE
                /\ p.author_name = body.author /\ p.content = body.content
                /\ p.tags = BodyTags(body) /\ p.parent_post_id = BodyParent(body)
           /\ created.author = body.author /\ created.content = body.content
           /\ created.tags = BodyTags(body) /\ created.parentPostId = BodyParent(body)
           /\ got.status = 200
           /\ got.json[1] = created

-----------------------------------------------------------------------------
(* C6  A list with limit in 1..100 and offset >= 0 by a key of the path's  *)
(* team is answered 200 with posts that all belong to the team and are not *)
(* deleted, in descending order of timestamp, and with a total that is the *)
(* number of non-deleted posts of the team.                                *)

ValidList ==
  /\ last.op = "list"
  /\ ValidateListQuery(LastReq.limit, LastReq.offset) = <<>>
  /\ Authorized(LastReq)

StoredPost(id) == CHOOSE p \in posts : p.id = id

C6_ListContents ==
  ValidList =>
    /\ last.resp.status = 200
    /\ LET j == last.resp.json[1]
           ids == [i \in 1..Len(j.posts) |-> PostIdOf(j.posts[i])]
       IN /\ \A i \in 1..Len(ids) :
               /\ ids[i] \in {p.id : p \in TeamPosts(KeyTeamId(LastReq))}
               /\ \A k \in 1..Len(ids) :
                    i < k => StoredPost(ids[i]).timestamp >= StoredPost(ids[k]).timestamp
          /\ "total" \in DOMAIN j
          /\ j.total = Cardinality(TeamPosts(KeyTeamId(LastReq)))

-----------------------------------------------------------------------------
(* C7  A list with limit in 1..100 and offset >= 0 by a key of the path's  *)
(* team carries a has_more flag equal to (offset + limit) < total, total   *)
(* being the number of non-deleted posts of the team.                      *)

C7_HasMore ==
  ValidList =>
    /\ last.resp.json # None
    /\ "has_more" \in DOMAIN last.resp.json[1]
    /\ last.resp.json[1].has_more =
         ((LastReq.offset + LastReq.limit) < Cardinality(TeamPosts(KeyTeamId(LastReq))))

-----------------------------------------------------------------------------
(* C8  A list with limit in 1..100 and offset >= 0 by a key of the path's  *)
(* team returns min(limit, total - offset) posts.  The statement is taken  *)
(* for the offsets up to total; beyond total the formula is negative.      *)

C8_PageLength ==
  (ValidList /\ LastReq.offset <= Cardinality(TeamPosts(KeyTeamId(LastReq)))) =>
    /\ last.resp.status = 200
    /\ Len(last.resp.json[1].posts) =
         Min(LastReq.limit, Cardinality(TeamPosts(KeyTeamId(LastReq))) - LastReq.offset)

-----------------------------------------------------------------------------
(* C9  A create by a key of the path's team whose body is valid and whose  *)
(* parent id names no live post of the team (a deleted post, a post of     *)
(* another team, or no post) is answered 404 with a message naming that id *)
(* and persists no post.                                                   *)

C9_Step ==
  LET req == last'.req[1]
  IN (/\ last'.op = "create"
      /\ req.body[1] \in ValidBodies
      /\ "parentPostId" \in DOMAIN req.body[1]
      /\ Authorized(req)
      /\ FindPost(req.body[1].parentPostId, KeyTeamId(req)) = {})
     => /\ posts' = posts
        /\ last'.resp.status = 404
        /\ Envelope(last'.resp).error.post_id = Some(req.body[1].parentPostId)

C9_InvalidParent == [][C9_Step]_vars

-----------------------------------------------------------------------------
(* C10  Authentication failures are indistinguishable.  A request with no  *)
(* Authorization header, with a header that is no Bearer header, with an   *)
(* empty token or with a token that matches no stored key changes no post  *)
(* and gets the response the same request gets without a header; when its  *)
(* parameters pass validation that response is 401, code UNAUTHORIZED,     *)
(* message "Invalid or missing API key".                                   *)

AuthFailHeaders == {None, Some("Basic k1"), Some("Bearer "), Some("Bearer kX")}

C10_Step ==
  LET req == last'.req[1]
  IN (last'.op \in ApiOps /\ req.header \in AuthFailHeaders) =>
       /\ posts' = posts
       /\ last'.resp = HandlerResponse(last'.op, [req EXCEPT !.header = None])
       /\ PassesValidation(last'.op, req) =>
            /\ last'.resp.status = 401
            /\ Envelope(last'.resp).code = "UNAUTHORIZED"
            /\ Envelope(last'.resp).error.text = "Invalid or missing API key"

-----------------------------------------------------------------------------
(* C11  A request that passes validation and carries a stored key of team  *)
(* A to a path naming another team is answered 403 with code FORBIDDEN and *)
(* changes no post, and the response is the one the same request gets for  *)
(* any other team name that is not A, stored or not, with that name in the *)
(* message: it does not depend on whether the named team exists.           *)

\* The team names a request path can carry.
PathTeams == {c.team : c \in Creds}

\* The 403 response with team name t in its message.
WithTeamName(resp, t) ==
  [resp EXCEPT !.json = Some([detail |-> [resp.json[1].detail EXCEPT !.error.team = Some(t)]])]

C11_Step ==
  LET req == last'.req[1]
      who == get_current_team(req.header)
  IN (/\ last'.op \in ApiOps
      /\ PassesValidation(last'.op, req)
      /\ who # None
      /\ who[1].team_name # req.team)
     => /\ last'.resp.status = 403
        /\ Envelope(last'.resp).code = "FORBIDDEN"
        /\ Envelope(last'.resp).error.text = "API key does not have access to team"
        /\ posts' = posts
        /\ \A t \in PathTeams \ {who[1].team_name} :
             HandlerResponse(last'.op, [req EXCEPT !.team = t]) = WithTeamName(last'.resp, t)

C11_ForbiddenHidesTeamExistence == [][C11_Step]_vars

\* Team t1's key deletes a live post id under the path of team t3, which
\* is not stored, having both a stored and an unstored other team to name.
C11_Witness ==
  /\ last.op = "delete"
  /\ LastReq.header = Some("Bearer k1") /\ LastReq.team = "t3"
  /\ ~\E t \in teams : t.name = "t3"
  /\ \E t \in teams : t.name = "t2"
  /\ \E p \in posts : p.id = LastReq.post_id /\ ~p.deleted
  /\ last.resp.status = 403

-----------------------------------------------------------------------------
Next ==
  \/ \E parent \in {None} \cup {Some(p.id) : p \in posts} :
       SeedPost(parent) /\ UNCHANGED <<storage, hit, registry, inflight, sessions, log, clock>>
  \/ \E c \in Creds, i \in PathIds : GetPost(c, i) /\ UNCHANGED <<storage, hit, registry, inflight, sessions, log, clock>>
  \/ \E c \in Creds, i \in PathIds : DeletePost(c, i) /\ UNCHANGED <<storage, hit, registry, inflight, sessions, log, clock>>
  \/ \E c \in Creds, q \in ListArgs, rows \in SortedDesc(posts) :
       ListPosts(c, q.limit, q.offset, rows) /\ UNCHANGED <<storage, hit, registry, inflight, sessions, log, clock>>
  \/ \E c \in Creds, b \in Bodies : CreatePost(c, b) /\ UNCHANGED <<storage, hit, registry, inflight, sessions, log, clock>>

Spec == Init /\ [][Next]_vars

-----------------------------------------------------------------------------
(* SpecRL: the six rate-limited routes behind the limiter.                 *)
(*                                                                         *)
(* The store starts with the first post of scripts/seed.py.  The clients   *)
(* load one route and one bucket at a time: a client sends on a route      *)
(* while every other bucket the storage holds is a bucket of that route    *)
(* that has used up its allowance, and a client that has been refused      *)
(* MaxRefused times waits for its window to end.                           *)

\* The state of Spec after SeedPost(None).
InitRL ==
  /\ teams = SeedTeamRows
  /\ api_keys = SeedKeyRows
  /\ posts = {[id |-> 1, team_id |-> 11, author_name |-> Str("alice", 5),
               content |-> Str("Welcome", 7), tags |-> <<"welcome", "announcement">>,
               timestamp |-> 0, parent_post_id |-> None, deleted |-> FALSE]}
  /\ acked = {}
  /\ last = [op |-> "seed", req |-> None, resp |-> NoResponse]
  /\ storage = <<>>
  /\ hit = None
  /\ registry = EmptyRegistry
  /\ inflight = [r \in Slots |-> Idle]
  /\ sessions = <<>>
  /\ log = None
  /\ clock = NoClock

\* The clients: their Authorization header and their address.
RLClients ==
  {[header |-> None, ip |-> "a"], [header |-> Some("Bearer k1"), ip |-> "a"],
   [header |-> Some("Bearer kX"), ip |-> "a"], [header |-> None, ip |-> "b"],
   [header |-> Some("Basic k1"), ip |-> "b"], [header |-> Some("Bearer "), ip |-> "a"]}

\* The credentials of a client on the path of team t1.
CredT1(client) == [header |-> client.header, team |-> "t1"]

\* The id of the seeded post and an id no row has.
RLPathIds == {0, 1}

RLListArgs == {[limit |-> 1, offset |-> 0], [limit |-> 0, offset |-> 0]}

RLBodies == {[author |-> Str("alice", 5), content |-> Str("hello", 5)],
             [author |-> Str("", 0), content |-> Str("hello", 5)]}

\* A bucket whose clients have been refused MaxRefused times and wait for
\* its window to end.
Exhausted(b) == storage[b] >= RouteLimit(b[2]) + MaxRefused

MaySend(client, route) ==
  /\ Count(Bucket(client, route)) < RouteLimit(route) + MaxRefused
  /\ \A b \in DOMAIN storage \ {Bucket(client, route)} :
       b[2] = route /\ Exhausted(b)

RLHealth(c) ==
  /\ MaySend(c, "health_check")
  /\ Limited("health_check", c, "health", Some(PlainRequest(c.header)),
             HealthCheck(c.header))

RLMetrics(c) ==
  /\ MaySend(c, "metrics_endpoint")
  /\ Limited("metrics_endpoint", c, "metrics", Some(PlainRequest(c.header)),
             MetricsEndpoint(c.header))

RLList(c, q) ==
  /\ MaySend(c, "list_posts")
  /\ IF ValidateListQuery(q.limit, q.offset) = <<>>
     THEN Limited("list_posts", c, "list",
                  Some(Request(CredT1(c), 0, q.limit, q.offset, None)),
                  \E rows \in SortedDesc(posts) :
                     ListPosts(CredT1(c), q.limit, q.offset, rows))
     ELSE Unlimited(\E rows \in SortedDesc(posts) :
                      ListPosts(CredT1(c), q.limit, q.offset, rows))

RLCreate(c, body) ==
  /\ MaySend(c, "create_post")
  /\ IF ValidatePostCreate(body) = <<>>
     THEN Limited("create_post", c, "create",
                  Some(Request(CredT1(c), 0, 0, 0, Some(body))),
                  CreatePost(CredT1(c), body))
     ELSE Unlimited(CreatePost(CredT1(c), body))

\* A get on the path of team t1 or of team t2, whose key no client holds.
RLGet(c, team, post_id) ==
  /\ MaySend(c, "get_post")
  /\ Limited("get_post", c, "get",
             Some(Request([header |-> c.header, team |-> team], post_id, 0, 0, None)),
             GetPost([header |-> c.header, team |-> team], post_id))

RLDelete(c, post_id) ==
  /\ MaySend(c, "delete_post")
  /\ Limited("delete_post", c, "delete", Some(Request(CredT1(c), post_id, 0, 0, None)),
             DeletePost(CredT1(c), post_id))

\* A request to a path no route matches, with a method the route of its
\* path does not accept, or to a route of the framework: no limiter.limit
\* wrapper runs for it.  Clients send it between the loads of two routes.
RLUnrouted(c) ==
  /\ \A b \in DOMAIN storage : Exhausted(b)
  /\ hit' = None
  /\ UNCHANGED storage
  /\ \/ UnknownRoute(c.header)
     \/ MethodNotAllowed(c.header)
     \/ RedirectSlashes(c.header)
     \/ Docs(c.header)

\* A get by a client with a token, during which the database is out of
\* order.
RLGetDbFails(c, e) ==
  /\ c.header # None
  /\ MaySend(c, "get_post")
  /\ Limited("get_post", c, "get", Some(Request(CredT1(c), 1, 0, 0, None)),
             GetPostDbFails(CredT1(c), 1, e))

NextRL ==
  \/ \E c \in RLClients : RLHealth(c) /\ UNCHANGED <<registry, inflight, sessions, log, clock>>
  \/ \E c \in RLClients : RLMetrics(c) /\ UNCHANGED <<registry, inflight, sessions, log, clock>>
  \/ \E c \in RLClients, q \in RLListArgs : RLList(c, q) /\ UNCHANGED <<registry, inflight, sessions, log, clock>>
  \/ \E c \in RLClients, body \in RLBodies : RLCreate(c, body) /\ UNCHANGED <<registry, inflight, sessions, log, clock>>
  \/ \E c \in RLClients, team \in {"t1", "t2"}, i \in RLPathIds :
       RLGet(c, team, i) /\ UNCHANGED <<registry, inflight, sessions, log, clock>>
  \/ \E c \in RLClients, i \in RLPathIds : RLDelete(c, i) /\ UNCHANGED <<registry, inflight, sessions, log, clock>>
  \/ \E c \in RLClients : RLUnrouted(c) /\ UNCHANGED <<registry, inflight, sessions, log, clock>>
  \/ \E c \in RLClients, e \in DbErrors : RLGetDbFails(c, e) /\ UNCHANGED <<registry, inflight, sessions, log, clock>>
  \/ \E b \in DOMAIN storage : WindowExpires(b) /\ UNCHANGED <<registry, inflight, sessions, log, clock>>

SpecRL == InitRL /\ [][NextRL]_vars

-----------------------------------------------------------------------------
(* Vocabulary of the rate limiting properties                              *)

\* The bucket and the route of the request the limiter has just decided.
HitBucket == hit[1].bucket
HitRoute == hit[1].bucket[2]

\* The token of a header of the form 'Bearer <token>' with a token.
HasToken(header) ==
  header # None /\ \E t \in Tokens : header[1] = "Bearer " \o t
TokenOf(header) == CHOOSE t \in Tokens : header[1] = "Bearer " \o t

\* The requests of an address that the limiter has admitted on a route in
\* the windows that are running: those of the buckets of its clients.
AdmittedFrom(ip, route) ==
  LET buckets == {Bucket(c, route) : c \in {c \in RLClients : c.ip = ip}}
  IN SumOver([b \in buckets |-> Min(Count(b), RouteLimit(route))], buckets)

-----------------------------------------------------------------------------
(* C12  In every window of a bucket (bucket key and route) the limiter     *)
(* counts each request that reaches it and admits a request exactly when   *)
(* fewer than N requests of the bucket came before it in the window, N     *)
(* being 30 for health, 100 for list, 100 for get, 30 for create, 20 for   *)
(* delete and 60 for metrics, so at most N get past it; a request that is  *)
(* not admitted is answered 429 with code RATE_LIMITED, a retry_after      *)
(* detail and a Retry-After header, and an admitted one is not answered    *)
(* 429.  The requests that reach the limiter are those whose parameters    *)
(* pass validation.                                                        *)

C12_Step ==
  hit' # None =>
    LET bucket == hit'[1].bucket
        N == CASE bucket[2] = "health_check" -> 30
               [] bucket[2] = "list_posts" -> 100
               [] bucket[2] = "get_post" -> 100
               [] bucket[2] = "create_post" -> 30
               [] bucket[2] = "delete_post" -> 20
               [] bucket[2] = "metrics_endpoint" -> 60
    IN /\ storage'[bucket] = Count(bucket) + 1
       /\ hit'[1].admitted <=> Count(bucket) < N
       /\ hit'[1].admitted => last'.resp.status # 429
       /\ ~hit'[1].admitted =>
            /\ last'.resp.status = 429
            /\ Envelope(last'.resp).code = "RATE_LIMITED"
            /\ "retry_after" \in DOMAIN Envelope(last'.resp).details
            /\ Envelope(last'.resp).details.retry_after = 60
            /\ last'.resp.headers = Some("Retry-After: 60")

C12_AtMostNPerWindow == [][C12_Step]_vars

\* The 21st delete of team t1's key in one window.
C12_Witness ==
  /\ hit # None
  /\ HitBucket = <<"api_key:k1", "delete_post">>
  /\ storage[HitBucket] = 21
  /\ ~hit[1].admitted
  /\ last.op = "delete" /\ last.resp.status = 429

-----------------------------------------------------------------------------
(* C13  Buckets are independent.  A request changes the counter of no      *)
(* bucket but its own, and a request with a Bearer token is admitted       *)
(* whenever fewer than the route's amount of requests with that token came *)
(* before it on the route in the window, however many requests other keys  *)
(* have made: with key K1 out of allowance, key K2 is still admitted.      *)

C13_Step ==
  hit' # None =>
    /\ \A b \in DOMAIN storage :
         b # hit'[1].bucket => b \in DOMAIN storage' /\ storage'[b] = storage[b]
    /\ HasToken(last'.req[1].header) =>
         LET own == <<"api_key:" \o TokenOf(last'.req[1].header), hit'[1].bucket[2]>>
         IN /\ \A b \in DOMAIN storage : b # own => storage'[b] = storage[b]
            /\ Count(own) < RouteLimit(own[2]) =>
                 hit'[1].admitted /\ last'.resp.status # 429

C13_BucketsIndependent == [][C13_Step]_vars

\* Key kX is admitted on a route on which key k1 is out of allowance.
C13_Witness ==
  /\ hit # None
  /\ hit[1].admitted
  /\ last.req # None /\ LastReq.header = Some("Bearer kX")
  /\ <<"api_key:k1", HitRoute>> \in DOMAIN storage
  /\ storage[<<"api_key:k1", HitRoute>>] > RouteLimit(HitRoute)
  /\ last.resp.status # 429

-----------------------------------------------------------------------------
(* C14  A request that is answered 429 performs no write: no table changes *)
(* in the step, so a refused create persists no post and a refused delete  *)
(* leaves the deleted flag of its target as it was; the response is the    *)
(* limiter's, not the handler's.                                           *)

C14_Step ==
  last'.resp.status = 429 =>
    /\ posts' = posts
    /\ teams' = teams
    /\ api_keys' = api_keys
    /\ acked' = acked
    /\ hit' # None /\ ~hit'[1].admitted

C14_RateLimitedNoWrite == [][C14_Step]_vars

\* Team t1's key is refused the delete of its live post.
C14_Witness ==
  /\ last.op = "delete" /\ last.resp.status = 429
  /\ LastReq.header = Some("Bearer k1") /\ LastReq.team = "t1"
  /\ \E p \in posts : p.id = LastReq.post_id /\ p.team_id = 11 /\ ~p.deleted

-----------------------------------------------------------------------------
(* C15  From any one client address the health endpoint admits at most 30  *)
(* requests and the metrics endpoint at most 60 requests in the running    *)
(* windows, whatever headers the requests carry.                           *)

C15_PerAddressLimit ==
  \A ip \in {c.ip : c \in RLClients} :
     /\ AdmittedFrom(ip, "health_check") <= 30
     /\ AdmittedFrom(ip, "metrics_endpoint") <= 60

-----------------------------------------------------------------------------
(* SpecObs: the routes behind the metrics middleware, for requests the     *)
(* limiter admits, until the registry holds MaxSamples samples.            *)

ObsHeaders == {None, Some("Bearer k1")}

Observed(method, path, Handler) ==
  /\ SumOver(registry.REQUEST_COUNT, DOMAIN registry.REQUEST_COUNT) < MaxSamples
  /\ metrics_middleware(method, path, Handler)
  /\ hit' = None
  /\ UNCHANGED <<storage, inflight, sessions, log, clock>>

ObsHealth(h) == Observed("GET", "/v1/healthz", HealthCheck(h))

ObsMetrics(h) == Observed("GET", "/metrics", MetricsEndpoint(h))

ObsList(h, q) ==
  Observed("GET", TeamPath("t1"),
           \E rows \in SortedDesc(posts) :
              ListPosts([header |-> h, team |-> "t1"], q.limit, q.offset, rows))

ObsCreate(h, body) ==
  Observed("POST", TeamPath("t1"), CreatePost([header |-> h, team |-> "t1"], body))

ObsGet(h, team, post_id) ==
  Observed("GET", PostPath(team, post_id), GetPost([header |-> h, team |-> team], post_id))

ObsDelete(h, post_id) ==
  Observed("DELETE", PostPath("t1", post_id),
           DeletePost([header |-> h, team |-> "t1"], post_id))

ObsUnknownRoute(h) == Observed("GET", "/v1/nonexistent", UnknownRoute(h))

ObsMethodNotAllowed(h) == Observed("PATCH", "/v1/healthz", MethodNotAllowed(h))

ObsRedirectSlashes(h) == Observed("GET", "/v1/teams/t1/posts/", RedirectSlashes(h))

NextObs ==
  \/ \E h \in ObsHeaders : ObsHealth(h)
  \/ \E h \in ObsHeaders : ObsMetrics(h)
  \/ \E h \in ObsHeaders, q \in RLListArgs : ObsList(h, q)
  \/ \E h \in ObsHeaders, body \in RLBodies : ObsCreate(h, body)
  \/ \E h \in ObsHeaders, team \in {"t1", "t2"}, i \in RLPathIds : ObsGet(h, team, i)
  \/ \E h \in ObsHeaders, i \in RLPathIds : ObsDelete(h, i)
  \/ \E h \in ObsHeaders : ObsUnknownRoute(h)
  \/ \E h \in ObsHeaders : ObsMethodNotAllowed(h)
  \/ \E h \in ObsHeaders : ObsRedirectSlashes(h)

SpecObs == InitRL /\ [][NextObs]_vars

-----------------------------------------------------------------------------
(* SpecDb: the requests of routers/posts.py as concurrent tasks.  A task   *)
(* takes the session of Depends(get_db), then the session of               *)
(* get_current_team for the key lookup, runs the queries of its handler,   *)
(* commits if it has written, and closes its sessions on the way out.  An  *)
(* await may raise: the database fails, or the task is cancelled.          *)

InitDb ==
  /\ teams = SeedTeamRows
  /\ api_keys = SeedKeyRows
  /\ posts = {[id |-> i, team_id |-> 11, author_name |-> Str("alice", 5),
               content |-> Str("Welcome", 7), tags |-> <<>>,
               timestamp |-> i, parent_post_id |-> None, deleted |-> FALSE] : i \in {1, 2}}
  /\ acked = {}
  /\ last = [op |-> "seed", req |-> None, resp |-> NoResponse]
  /\ storage = <<>>
  /\ hit = None
  /\ registry = EmptyRegistry
  /\ inflight = [r \in Slots |-> Idle]
  /\ sessions = <<>>
  /\ log = None
  /\ clock = NoClock

\* The requests of the tasks: a delete of post 1 and a reply to it, with the
\* key of team t1, and a get without a key.
DbRequests ==
  {[op |-> "get", req |-> Request([header |-> None, team |-> "t1"], 1, 0, 0, None)],
   [op |-> "delete", req |-> Request([header |-> Some("Bearer k1"), team |-> "t1"], 1, 0, 0, None)],
   [op |-> "create",
    req |-> Request([header |-> Some("Bearer k1"), team |-> "t1"], 0, 0, 0,
                    Some([author |-> Str("alice", 5), content |-> Str("hello", 5),
                          parentPostId |-> 1]))]}

CancelledError == PyException("CancelledError", "")

\* The writes of a session that are not committed: the ids of the rows it
\* has marked deleted and the rows it has added.
NoWrites == [marks |-> {}, rows |-> {}]

Open(s) == [t \in DOMAIN sessions \cup {s} |-> IF t = s THEN NoWrites ELSE sessions[t]]

Close(s) == [t \in DOMAIN sessions \ {s} |-> sessions[t]]

At(r, pc) == inflight[r].pc = pc

Goto(r, pc) == [inflight EXCEPT ![r].pc = pc]

\* A request arrives and a task starts to serve it.
Begin(r, q) ==
  /\ At(r, "idle")
  /\ inflight' = [inflight EXCEPT ![r] =
                    [pc |-> "get_db", op |-> q.op, req |-> q.req, exc |-> None, resp |-> None,
                     total |-> None]]
  /\ UNCHANGED <<tables, last, sessions>>

\* get_db up to its yield: async with async_session_maker() as session.
get_db(r) ==
  /\ At(r, "get_db")
  /\ sessions' = Open(<<r, "db">>)
  /\ inflight' = Goto(r, "auth")
  /\ UNCHANGED <<tables, last>>

\* get_current_team up to its query: without a token it returns None and
\* opens no session.
AuthEnter(r) ==
  /\ At(r, "auth")
  /\ LET header == inflight[r].req.header
     IN IF header # None /\ StartsWithBearer(header[1]) /\ StripBearer(header[1]) # ""
        THEN /\ sessions' = Open(<<r, "auth">>)
             /\ inflight' = Goto(r, "auth_query")
        ELSE /\ inflight' = Goto(r, "body")
             /\ UNCHANGED sessions
  /\ UNCHANGED <<tables, last>>

\* await session.execute(query) of get_current_team returns.
AuthQuery(r) ==
  /\ At(r, "auth_query")
  /\ inflight' = Goto(r, "auth_exit")
  /\ UNCHANGED <<tables, last, sessions>>

\* The async with of get_current_team is left, by return or by exception.
AuthExit(r) ==
  /\ At(r, "auth_exit")
  /\ sessions' = Close(<<r, "auth">>)
  /\ inflight' = Goto(r, IF inflight[r].exc = None THEN "body" ELSE "teardown")
  /\ UNCHANGED <<tables, last>>

\* The handler as it runs on the rows that are committed at this moment.
HandlerOutcome(q) ==
  LET cred == [header |-> q.req.header, team |-> q.req.team]
  IN CASE q.op = "get" -> get_post(cred, q.req.post_id)
       [] q.op = "delete" -> delete_post(cred, q.req.post_id)
       [] q.op = "create" -> create_post(cred, q.req.body[1])

\* The handler up to its commit: its queries, and the rows it marks deleted
\* or adds in its session.
Body(r) ==
  /\ At(r, "body")
  /\ inflight[r].op # "list"
  /\ LET o == HandlerOutcome(inflight[r])
         writes == [marks |-> {p.id : p \in {p \in posts : ~p.deleted /\
                                  \E n \in o.posts : n.id = p.id /\ n.deleted}},
                    rows |-> {n \in o.posts : \A p \in posts : p.id # n.id}]
     IN /\ sessions' = [sessions EXCEPT ![<<r, "db">>] = writes]
        /\ inflight' = [inflight EXCEPT ![r].resp = Some(o.resp),
                                         ![r].pc = IF writes = NoWrites THEN "teardown"
                                                   ELSE "commit"]
  /\ UNCHANGED <<tables, last>>

\* list_posts up to the return of its count query: require_team_access, and
\* await db.execute(count_query).
ListCount(r) ==
  /\ At(r, "body")
  /\ inflight[r].op = "list"
  /\ LET q == inflight[r]
         a == require_team_access(q.req.header, q.req.team)
     IN inflight' = IF a.ok
                    THEN [inflight EXCEPT ![r].total = Some(list_posts_count(a.val)),
                                          ![r].pc = "page"]
                    ELSE [inflight EXCEPT ![r].resp = Some(HandleException(a.exc)),
                                          ![r].pc = "teardown"]
  /\ UNCHANGED <<tables, last, sessions>>

\* list_posts from the return of await db.execute(posts_query) to its
\* return.
ListPage(r) ==
  /\ At(r, "page")
  /\ LET q == inflight[r]
         a == require_team_access(q.req.header, q.req.team)
     IN \E rows \in SortedDesc(posts) :
          inflight' = [inflight EXCEPT
                         ![r].resp = Some(list_posts_page(a.val, q.total[1], q.req.limit,
                                                          q.req.offset, rows).resp),
                         ![r].pc = "teardown"]
  /\ UNCHANGED <<tables, last, sessions>>

\* What a commit of the writes makes of the table.
Committed(table, writes) ==
  {IF p.id \in writes.marks THEN [p EXCEPT !.deleted = TRUE] ELSE p : p \in table}
    \cup writes.rows

\* await db.commit(): the writes of the session reach the table in one
\* transaction.
Commit(r) ==
  /\ At(r, "commit")
  /\ posts' = Committed(posts, sessions[<<r, "db">>])
  /\ sessions' = [sessions EXCEPT ![<<r, "db">>] = NoWrites]
  /\ inflight' = Goto(r, "teardown")
  /\ UNCHANGED <<teams, api_keys, acked, last>>

\* Variant without the try/finally and the async with: the session is
\* closed only when the handler has returned.
get_db_close_NoFinally(r) ==
  /\ At(r, "teardown")
  /\ sessions' = IF inflight[r].exc = None THEN Close(<<r, "db">>) ELSE sessions
  /\ inflight' = Goto(r, "finish")
  /\ UNCHANGED <<tables, last>>

\* get_db after its yield: finally: await session.close(), and the end of
\* the async with.  The writes that are not committed are dropped.
get_db_close(r) ==
  /\ At(r, "teardown")
  /\ sessions' = Close(<<r, "db">>)
  /\ inflight' = Goto(r, "finish")
  /\ UNCHANGED <<tables, last>>

\* The response leaves, or the exception reaches its handler; a cancelled
\* task sends nothing.
Finish(r) ==
  /\ At(r, "finish")
  /\ LET q == inflight[r]
         resp == IF q.exc = None THEN q.resp[1]
                 ELSE IF q.exc[1] = CancelledError THEN NoResponse
                 ELSE HandleException(q.exc[1])
     IN /\ last' = [op |-> q.op, req |-> Some(q.req), resp |-> resp]
        /\ acked' = IF q.op = "delete" /\ resp.status = 204
                     THEN acked \cup {q.req.post_id} ELSE acked
  /\ inflight' = [inflight EXCEPT ![r] = Idle]
  /\ UNCHANGED <<teams, api_keys, posts, sessions>>

\* The awaits of a task: the query of the key lookup, the queries of the
\* handler and its commit.
Awaits == {"auth_query", "body", "page", "commit"}

\* e is raised at the await the task is at: the stack unwinds through the
\* async with of get_current_team, if the task is in it, and then through
\* get_db.
Unwind(r, e) ==
  /\ inflight[r].pc \in Awaits
  /\ inflight' = [inflight EXCEPT ![r].exc = Some(e),
                                  ![r].pc = IF At(r, "auth_query") THEN "auth_exit"
                                            ELSE "teardown"]
  /\ UNCHANGED <<tables, last, sessions>>

\* The client goes away and the task is cancelled.
Cancel(r) == Unwind(r, CancelledError)

\* The database raises at a query or at the commit.
DbFails(r, e) == Unwind(r, e)

\* The steps of a task that the event loop runs without waiting for the
\* outside.
Run(r) ==
  /\ UNCHANGED <<storage, hit, registry, log, clock>>
  /\ \/ get_db(r)
     \/ AuthEnter(r)
     \/ AuthQuery(r)
     \/ AuthExit(r)
     \/ Body(r)
     \/ Commit(r)
     \/ get_db_close(r)
     \/ Finish(r)

NextDb ==
  \/ \E r \in Slots, q \in DbRequests : Begin(r, q) /\ UNCHANGED <<storage, hit, registry, log, clock>>
  \/ \E r \in Slots : Run(r)
  \/ \E r \in Slots : Cancel(r) /\ UNCHANGED <<storage, hit, registry, log, clock>>
  \/ \E r \in Slots, e \in DbErrors : DbFails(r, e) /\ UNCHANGED <<storage, hit, registry, log, clock>>

\* The event loop runs every task that is ready.
SpecDb == InitDb /\ [][NextDb]_vars /\ \A r \in Slots : WF_vars(Run(r))

-----------------------------------------------------------------------------
(* SpecList: the tasks of SpecDb with a list among their requests.  The    *)
(* two queries of list_posts are two awaits, and the other task may commit *)
(* between them.                                                           *)

\* A list of the second page of one post, and the delete and the reply of
\* DbRequests.
ListRequests ==
  {[op |-> "list", req |-> Request([header |-> Some("Bearer k1"), team |-> "t1"], 0, 1, 1, None)]}
    \cup {q \in DbRequests : q.op \in {"delete", "create"}}

RunList(r) ==
  /\ UNCHANGED <<storage, hit, registry, log, clock>>
  /\ \/ ListCount(r)
     \/ ListPage(r)

NextList ==
  \/ \E r \in Slots, q \in ListRequests : Begin(r, q) /\ UNCHANGED <<storage, hit, registry, log, clock>>
  \/ \E r \in Slots : Run(r)
  \/ \E r \in Slots : RunList(r)
  \/ \E r \in Slots : Cancel(r) /\ UNCHANGED <<storage, hit, registry, log, clock>>
  \/ \E r \in Slots, e \in DbErrors : DbFails(r, e) /\ UNCHANGED <<storage, hit, registry, log, clock>>

SpecList == InitDb /\ [][NextList]_vars

-----------------------------------------------------------------------------
(* SpecLog: the log record of an authentication failure                    *)
(* (logging_config.py, middleware/auth.py).  A key is the sequence of its  *)
(* characters.                                                             *)

KeyChars == {"a", "b"}

\* The tokens that reach the lookup of get_current_team: not empty.
Keys == UNION {[1..n -> KeyChars] : n \in 1..MaxKeyLen}

MaskMinLen == 8

mask_api_key(api_key) ==
  IF api_key = <<>> \/ Len(api_key) < MaskMinLen
  THEN <<"*", "*", "*", "*">>
  ELSE SubSeq(api_key, 1, 4) \o <<".", ".", ".">>
         \o SubSeq(api_key, Len(api_key) - 3, Len(api_key))

\* logger.warning("Invalid API key attempted", extra={"api_key_masked": ...})
\* for a token that is no stored key.  api_key is the token of the request,
\* which is not in the record.
LogAuthFailure(api_key) ==
  /\ log' = Some([event_type |-> "auth_failure", api_key |-> api_key,
                  api_key_masked |-> mask_api_key(api_key)])
  /\ UNCHANGED <<tables, last, storage, hit, registry, inflight, sessions, clock>>

NextLog == \E api_key \in Keys : LogAuthFailure(api_key)

SpecLog == InitRL /\ [][NextLog]_vars

-----------------------------------------------------------------------------
(* SpecClock: the limiter of the delete route under the time of day.  The  *)
(* counter of a bucket lives for the window of the limit, one minute from  *)
(* the request that starts it; a refused request counts and does not move  *)
(* the end of the window.                                                  *)

\* "20/minute": the seconds of the window.
WindowSeconds == 60

\* The seconds between two looks at the clock.
TickSeconds == 30

\* A client with the key of team t1 and a client without a key.
ClockClients == {[header |-> Some("Bearer k1"), ip |-> "a"], [header |-> None, ip |-> "a"]}

\* retry_after of the body of a 429 response.
StatedRetryAfter(resp) == resp.json[1].detail.details.retry_after

\* The wait the last answer to the bucket asked for is over.
Waited(bucket) ==
  /\ bucket \in DOMAIN clock.answers
  /\ clock.answers[bucket].refused
  /\ clock.now >= clock.answers[bucket].until

\* The storage sets the end of the window when it starts the counter.
StartWindow(bucket) ==
  [b \in DOMAIN clock.expirations \cup {bucket} |->
     IF b \in DOMAIN storage THEN clock.expirations[b] ELSE clock.now + WindowSeconds]

\* What the client of the bucket is told: whether it is refused and, if it
\* is, until when the response asks it to wait; and whether it had waited
\* as the answer before had asked.
Answer(bucket, route) ==
  [b \in DOMAIN clock.answers \cup {bucket} |->
     IF b # bucket THEN clock.answers[b]
     ELSE [refused |-> ~Admits(bucket, route),
           until |-> IF Admits(bucket, route) THEN 0
                     ELSE clock.now + StatedRetryAfter(RateLimitedResponse(route)),
           waited |-> Waited(bucket)]]

\* A delete at the time of the clock.  A client that was refused sends on
\* MaxRefused times at most before it waits.
ClockDelete(c, post_id) ==
  LET bucket == Bucket(c, "delete_post")
  IN /\ Count(bucket) < DeleteLimit + MaxRefused \/ Waited(bucket)
     /\ Limited("delete_post", c, "delete", Some(Request(CredT1(c), post_id, 0, 0, None)),
                DeletePost(CredT1(c), post_id))
     /\ clock' = [clock EXCEPT !.expirations = StartWindow(bucket),
                               !.answers = Answer(bucket, "delete_post")]

\* Time passes, and the storage drops the counters whose window has ended.
Tick ==
  /\ clock.now < MaxTicks * TickSeconds
  /\ LET now == clock.now + TickSeconds
         open == {b \in DOMAIN storage : clock.expirations[b] > now}
     IN /\ clock' = [clock EXCEPT !.now = now,
                                  !.expirations = [b \in open |-> clock.expirations[b]]]
        /\ storage' = [b \in open |-> storage[b]]
  /\ hit' = None
  /\ last' = [op |-> "tick", req |-> None, resp |-> NoResponse]
  /\ UNCHANGED tables

NextClock ==
  \/ \E c \in ClockClients, i \in RLPathIds :
       ClockDelete(c, i) /\ UNCHANGED <<registry, inflight, sessions, log>>
  \/ Tick /\ UNCHANGED <<registry, inflight, sessions, log>>

SpecClock == InitRL /\ [][NextClock]_vars

-----------------------------------------------------------------------------
(* C16  Error envelope.  Read literally, the claim says that every         *)
(* response whose status is not 2xx has a JSON body whose detail is an     *)
(* object with a non-empty string error, a non-empty string code and an    *)
(* object details, the responses to an unknown route and to a method the   *)
(* route does not accept included, and the redirect of a path with a       *)
(* trailing slash.                                                         *)
NonSuccess(resp) == resp.status >= 300

HasEnvelope(resp) ==
  /\ resp.json # None
  /\ "detail" \in DOMAIN resp.json[1]
  /\ {"error", "code", "details"} \subseteq DOMAIN resp.json[1].detail
  /\ "text" \in DOMAIN resp.json[1].detail.error
  /\ resp.json[1].detail.error.text # ""
  /\ resp.json[1].detail.code # ""
  /\ resp.json[1].detail.details # None

\* A body whose detail is a string and no object.
HasStringDetail(resp) ==
  /\ resp.json # None
  /\ "detail" \in DOMAIN resp.json[1]
  /\ "text" \in DOMAIN resp.json[1].detail
  /\ resp.json[1].detail.text # ""

C16_EnvelopeOnEveryError ==
  NonSuccess(last.resp) => HasEnvelope(last.resp)

(* C16 as the code has it.  Every response whose status is not 2xx and     *)
(* that comes from validation (422), authentication (401), authorization   *)
(* (403), a post that is not found (404), the rate limiter (429), the      *)
(* database (500) or an unhandled exception (500) has the envelope; the    *)
(* 404 of a path no route matches and the 405 of a method the route does   *)
(* not accept have a detail that is a string, and the 307 that redirects a *)
(* path with a trailing slash has no JSON body.                            *)
FrameworkAnswered == {"unknown_route", "method_not_allowed"}

C16_EnvelopeOnHandledErrors ==
  NonSuccess(last.resp) =>
    IF last.op \in FrameworkAnswered
    THEN HasStringDetail(last.resp) /\ ~HasEnvelope(last.resp)
    ELSE IF last.op = "redirect_slashes"
    THEN last.resp.status = 307 /\ last.resp.json = None
    ELSE HasEnvelope(last.resp)

\* A get on the path of another team is answered 403 with the envelope.
C16_Witness ==
  /\ last.op = "get"
  /\ last.resp.status = 403
  /\ HasEnvelope(last.resp)
  /\ Envelope(last.resp).code = "FORBIDDEN"

-----------------------------------------------------------------------------
(* C17  In every step that serves a request, a request whose path is not   *)
(* /metrics adds exactly one sample to the request counter and one to the  *)
(* duration histogram, under the label of its method, its path and the     *)
(* status of its response, whatever the status, and adds nothing under any *)
(* other label; a request to /metrics changes no sample.                   *)
MethodOf(op) ==
  CASE op = "create" -> "POST"
    [] op = "delete" -> "DELETE"
    [] op = "method_not_allowed" -> "PATCH"
    [] OTHER -> "GET"

PathOf(l) ==
  CASE l.op = "health" -> "/v1/healthz"
    [] l.op = "metrics" -> "/metrics"
    [] l.op = "unknown_route" -> "/v1/nonexistent"
    [] l.op = "method_not_allowed" -> "/v1/healthz"
    [] l.op = "redirect_slashes" -> "/v1/teams/t1/posts/"
    [] l.op \in {"list", "create"} -> "/v1/teams/" \o l.req[1].team \o "/posts"
    [] OTHER -> "/v1/teams/" \o l.req[1].team \o "/posts/" \o ToString(l.req[1].post_id)

C17_Step ==
  LET label == <<MethodOf(last'.op), PathOf(last'), ToString(last'.resp.status)>>
      added(l) == IF l = label /\ PathOf(last') # "/metrics" THEN 1 ELSE 0
  IN \A name \in {"REQUEST_DURATION", "REQUEST_COUNT"} :
       \A l \in DOMAIN registry[name] \cup DOMAIN registry'[name] \cup {label} :
          Samples(registry'[name], l) = Samples(registry[name], l) + added(l)

C17_EveryRequestCountedOnce == [][C17_Step]_vars

-----------------------------------------------------------------------------
(* C18  A response to a request whose handling failed with an unexpected   *)
(* exception has status 500, the generic message and code INTERNAL_ERROR,  *)
(* and its body is the body the client would have received had any other   *)
(* exception been raised: neither the type nor the message of the          *)
(* exception is in it.                                                     *)
OtherExceptions ==
  {PyException("RuntimeError", "boom"), PyException("KeyError", "'id'")}

C18_BodyIndependentOfException ==
  (last.resp.status = 500 /\ Envelope(last.resp).code = "INTERNAL_ERROR") =>
    /\ Envelope(last.resp).error.text = "An unexpected error occurred. Please try again later."
    /\ \A e \in OtherExceptions :
         last.resp.json = generic_exception_handler(e).json

-----------------------------------------------------------------------------
(* C19  Every database session that a request opens, that of get_db and    *)
(* that of the key lookup, is closed later, whether the request ends in a  *)
(* response, in an error response or in cancellation.  The table changes   *)
(* only in a commit, which writes all the writes of one session and        *)
(* nothing else: exactly one row that is new or that is an old row marked  *)
(* deleted; a session that is closed leaves the table as it is, so a       *)
(* request that fails or is cancelled before its commit writes nothing.    *)
SessionIds == Slots \X {"db", "auth"}

IsOpen(s) == s \in DOMAIN sessions

OneRowWritten ==
  \E p \in posts' \ posts :
     /\ posts' \ posts = {p}
     /\ \/ posts \subseteq posts' /\ \A q \in posts : q.id # p.id
        \/ \E q \in posts : /\ posts \ posts' = {q}
                             /\ ~q.deleted
                             /\ p = [q EXCEPT !.deleted = TRUE]

C19_WriteStep ==
  /\ posts' # posts =>
       /\ OneRowWritten
       /\ \E s \in DOMAIN sessions :
            /\ sessions[s] # NoWrites
            /\ posts' = Committed(posts, sessions[s])
            /\ IsOpen(s)' /\ sessions'[s] = NoWrites
  /\ \A s \in DOMAIN sessions : ~IsOpen(s)' => posts' = posts

C19_SessionsReleasedWritesAtomic ==
  /\ \A s \in SessionIds : IsOpen(s) ~> ~IsOpen(s)
  /\ [][C19_WriteStep]_vars

\* A delete is cancelled at its commit: its session is open and holds the
\* mark of the post.
C19_Witness ==
  \E r \in Slots :
     /\ inflight[r].pc = "teardown"
     /\ inflight[r].exc = Some(CancelledError)
     /\ IsOpen(<<r, "db">>)
     /\ sessions[<<r, "db">>].marks = {1}

-----------------------------------------------------------------------------
(* C21  Frame of a delete.  A delete answered 204 for post P sets the      *)
(* deleted flag of P and changes no other field and no other row; every    *)
(* other post that is not deleted, a reply to P included, is still         *)
(* returned by a get of its team's key (200 with its id) and is in the     *)
(* list of its team.  A delete answered 401, 403 or 404 leaves the table   *)
(* as it is.                                                               *)
OnlyFlagOf(post_id) ==
  \E p \in posts :
     /\ p.id = post_id
     /\ ~p.deleted
     /\ posts' = (posts \ {p}) \cup {[p EXCEPT !.deleted = TRUE]}

\* The key of team t1, which owns every stored post.
OwnerCred == [header |-> Some("Bearer k1"), team |-> "t1"]

Gettable(p) ==
  LET resp == get_post(OwnerCred, p.id).resp
  IN resp.status = 200 /\ ReturnedIds(resp) = {p.id}

Listed(p) ==
  \E rows \in SortedDesc(posts) :
     LET resp == list_posts(OwnerCred, LimitMax, 0, rows).resp
     IN resp.status = 200 /\ p.id \in ReturnedIds(resp)

\* After the request in last, a delete.
OthersVisible ==
  \A p \in posts : (p.id # LastReq.post_id /\ ~p.deleted) => Gettable(p) /\ Listed(p)

C21_Step ==
  last'.op = "delete" =>
    LET req == last'.req[1]
    IN /\ last'.resp.status = 204 =>
            OnlyFlagOf(req.post_id) /\ OthersVisible'
       /\ last'.resp.status \in {401, 403, 404} => posts' = posts

C21_DeleteFrame == [][C21_Step]_vars

-----------------------------------------------------------------------------
(* C22  Order of the checks.  The response to a team-scoped request is     *)
(* that of the first check that fails, in the order validation,            *)
(* authentication, team authorization, lookup.  A request that fails       *)
(* validation is answered 422 with a body that depends on the request's    *)
(* query and body alone, whatever its key and whatever is stored, and      *)
(* writes nothing; one that passes validation without a stored key is      *)
(* answered 401, whatever team and post it names; one with the key of a    *)
(* team other than the path's is answered 403, whatever post it names; a   *)
(* request that passes the three checks is answered none of 422, 401, 403. *)
ValidationErrors(op, req) ==
  CASE op = "list" -> ValidateListQuery(req.limit, req.offset)
    [] op = "create" -> ValidatePostCreate(req.body[1])
    [] OTHER -> <<>>

C22_Step ==
  last'.op \in ApiOps =>
    LET req == last'.req[1]
        errs == ValidationErrors(last'.op, req)
        who == get_current_team(req.header)
    IN IF errs # <<>>
       THEN /\ last'.resp.status = 422
            /\ last'.resp = validation_exception_handler(errs)
            /\ posts' = posts
       ELSE IF who = None
       THEN last'.resp.status = 401 /\ posts' = posts
       ELSE IF who[1].team_name # req.team
       THEN last'.resp.status = 403 /\ posts' = posts
       ELSE last'.resp.status \notin {422, 401, 403}

-----------------------------------------------------------------------------
(* C23  The bucket key.  The key under which the limiter counts a request  *)
(* is "api_key:" followed by the token when the Authorization header is    *)
(* "Bearer " followed by a non-empty token, whether or not the token is a  *)
(* stored key, and is "ip:" followed by the address of the client in every *)
(* other case: no header, another scheme, an empty token.                  *)
C23_Step ==
  hit' # None =>
    LET header == last'.req[1].header
        key == hit'[1].bucket[1]
    IN IF header # None /\ \E t \in Tokens : header[1] = "Bearer " \o t
       THEN \E t \in Tokens : header[1] = "Bearer " \o t /\ key = "api_key:" \o t
       ELSE key = "ip:" \o hit'[1].ip

C23_BucketKey == [][C23_Step]_vars

\* A request with a token that is no stored key is counted under the token.
C23_Witness ==
  /\ hit # None
  /\ LastReq.header = Some("Bearer kX")
  /\ get_current_team(LastReq.header) = None
  /\ hit[1].bucket[1] = "api_key:kX"

-----------------------------------------------------------------------------
(* C24  The endpoint label.  The endpoint of every label in the registry   *)
(* is the path of the request without query string and without expanded    *)
(* path parameters: two samples of requests to the same route, which       *)
(* differ in the team name or the post id of their paths only, are under   *)
(* the same endpoint.                                                      *)
PathTeamNames == {"t1", "t2"}

\* The route a path matches.
RouteOfPath(path) ==
  IF \E t \in PathTeamNames : path = TeamPath(t) THEN "/v1/teams/{team}/posts"
  ELSE IF \E t \in PathTeamNames, i \in RLPathIds : path = PostPath(t, i)
  THEN "/v1/teams/{team}/posts/{post_id}"
  ELSE path

C24_OneEndpointPerRoute ==
  \A l1, l2 \in DOMAIN registry.REQUEST_COUNT :
     RouteOfPath(l1[2]) = RouteOfPath(l2[2]) => l1[2] = l2[2]

-----------------------------------------------------------------------------
(* C25  The masked key.  The characters of the key that the masked form of *)
(* a log record shows are at most its first 4 followed by its last 4, and  *)
(* they are never the whole key.                                           *)
IsKeyChar(c) == c \in KeyChars

\* The characters of the key in a masked form.
Shown(masked) == SelectSeq(masked, IsKeyChar)

C25_MaskHidesKey ==
  log # None =>
    LET key == log[1].api_key
        shown == Shown(log[1].api_key_masked)
    IN /\ Len(shown) <= 8
       /\ shown # <<>> =>
            shown = SubSeq(key, 1, 4) \o SubSeq(key, Len(key) - 3, Len(key))
       /\ shown # key

-----------------------------------------------------------------------------
(* C26  The default limit.  A request to a route without a limit of its    *)
(* own, such as the documentation page, is counted by the limiter in the   *)
(* bucket of its key and is admitted exactly when fewer than 60 requests   *)
(* of the bucket came before it in the window; otherwise it is answered    *)
(* 429.                                                                    *)
C26_Step ==
  last'.op = "docs" =>
    /\ hit' # None
    /\ LET bucket == hit'[1].bucket
       IN /\ storage'[bucket] = Count(bucket) + 1
          /\ hit'[1].admitted <=> Count(bucket) < 60
          /\ ~hit'[1].admitted => last'.resp.status = 429

C26_DefaultLimit == [][C26_Step]_vars

-----------------------------------------------------------------------------
(* C27  Concurrent deletes.  Of the deletes of one post, whatever the      *)
(* interleaving of their steps, one is answered 204 and every other one    *)
(* 404: no delete is answered 204 for a post for which a delete has        *)
(* been answered 204 before, and a delete by the key of the post's team    *)
(* is answered 204 or 404.                                                 *)
Finishes(r) == inflight[r].pc = "finish" /\ inflight'[r] = Idle

C27_Step ==
  \A r \in Slots :
     (Finishes(r) /\ inflight[r].op = "delete" /\ inflight[r].exc = None) =>
        /\ last'.resp.status \in {204, 404}
        /\ last'.resp.status = 204 => inflight[r].req.post_id \notin acked

C27_OneDeleteSucceeds == [][C27_Step]_vars

-----------------------------------------------------------------------------
(* C28  A list response is consistent with one snapshot of the store, also *)
(* when deletes of the team run at the same time: it carries a total and   *)
(* has_more, its posts are as many as the offset/limit slice of total      *)
(* posts holds, and has_more tells whether posts lie beyond the slice.     *)
SliceLen(total, offset, limit) ==
  IF total <= offset THEN 0 ELSE Min(limit, total - offset)

C28_Step ==
  \A r \in Slots :
     (Finishes(r) /\ inflight[r].op = "list" /\ last'.resp.status = 200) =>
        LET body == last'.resp.json[1]
            req == inflight[r].req
        IN /\ {"total", "has_more"} \subseteq DOMAIN body
           /\ Len(body.posts) = SliceLen(body.total, req.offset, req.limit)
           /\ body.has_more <=> (req.offset + req.limit < body.total)

C28_ListIsOneSnapshot == [][C28_Step]_vars

-----------------------------------------------------------------------------
(* C29  Posts are created in the team of the key only, and requests leave  *)
(* teams and keys alone.  No request changes a row of teams or api_keys.   *)
(* A post that a request adds is added by a create, belongs to the team of *)
(* the key of the request, and the name of that team is the team of the    *)
(* path.  A create without a stored key, or under the path of a team other *)
(* than the team of its key, is refused and adds no post.                  *)
C29_Step ==
  LET req == last'.req[1]
      who == get_current_team(req.header)
      added == {p \in posts' : \A o \in posts : o.id # p.id}
  IN last'.op \in ApiOps =>
       /\ teams' = teams
       /\ api_keys' = api_keys
       /\ \A p \in added :
            /\ last'.op = "create"
            /\ who # None
            /\ p.team_id = who[1].team_id
            /\ who[1].team_name = req.team
       /\ (last'.op = "create" /\ (who = None \/ who[1].team_name # req.team)) =>
            /\ added = {}
            /\ last'.resp.status \in {401, 403, 422}

C29_PostsOfKeyTeamOnly == [][C29_Step]_vars

\* The key of team t1 has sent a valid body to the path of team t2, which
\* is stored, and has been refused.
C29_Witness ==
  /\ last.op = "create"
  /\ LastReq.header = Some("Bearer k1") /\ LastReq.team = "t2"
  /\ \E t \in teams : t.name = "t2"
  /\ PassesValidation("create", LastReq)
  /\ last.resp.status = 403

-----------------------------------------------------------------------------
(* C30  No client is locked out.  A request of a bucket whose last request *)
(* was answered 429, sent when the time the 429 response told it to wait   *)
(* has passed, is admitted: the limiter does not refuse it and the route   *)
(* answers it.                                                             *)
C30_Step ==
  hit' # None =>
    LET bucket == hit'[1].bucket
    IN clock'.answers[bucket].waited =>
         /\ hit'[1].admitted
         /\ ~clock'.answers[bucket].refused
         /\ last'.resp.status # 429

C30_AdmittedAfterRetryAfter == [][C30_Step]_vars

\* A client was refused, waited as it was told and has been answered by
\* the route.
C30_Witness ==
  /\ hit # None
  /\ hit[1].admitted
  /\ clock.answers[hit[1].bucket].waited
  /\ last.op = "delete" /\ last.resp.status \in {204, 401, 404}
  /\ clock.now >= RetryAfter

-----------------------------------------------------------------------------
TypeOK ==
  /\ \A p \in posts : p.id \in 1..(MaxPosts + 1) /\ p.deleted \in BOOLEAN
====
